---- MODULE Spec2Model ----
(***************************************************************************)
(* PuppyCloud node: session admission, password login, invite-gated dial   *)
(* requests, the content-addressed chunk store, process start-up (identity *)
(* load, listener binds, bootstrap dials) and the peer engine with its     *)
(* blocking database workers, as implemented in rust/src/main.rs and       *)
(* rust/src/db.rs.                                                         *)
(*                                                                         *)
(* Modelling conventions                                                   *)
(*  - Option<T> is a set: {} is None, {v} is Some(v).                      *)
(*  - HashMap / SQL table with a primary key is a function whose DOMAIN is *)
(*    the set of keys present; <<>> is the empty map.                      *)
(*  - A byte string is a run of one byte value, [fill, hi, lo], of length  *)
(*    hi * 2^32 + lo; the length is kept as two 32-bit limbs so that the   *)
(*    casts `as u64` and `as u32` keep their widths.                       *)
(*  - Argon2 and BLAKE3 are collision free: each is an injective encoding  *)
(*    of its inputs.  OsRng output used as a session id is unused so far.  *)
(*  - A table without a single-column key (peer_addrs) is the set of its   *)
(*    rows.                                                                *)
(*  - `last` records the most recent response (of an HTTP handler or of a  *)
(*    database query); last.n flips on every response so that a step that  *)
(*    answers a request can be recognised.                                 *)
(***************************************************************************)
EXTENDS Integers, Sequences, FiniteSets, TLC

\* ---------------------------------------------------------------- bounds
MaxTime  == 1      \* wall clock runs 0..MaxTime
MaxSid   == 3      \* session ids drawn by OsRng: 1..MaxSid
MaxSalt  == 2      \* salts drawn by OsRng: 1..MaxSalt
MaxHi    == 1      \* high limb of a file length: 0..MaxHi
MaxLo    == 1      \* low limb of a file length: 0..MaxLo
MaxTasks == 2      \* concurrent upload requests in flight
MaxDials == 1      \* dial requests accepted while nothing drains the queue
MaxKey     == 2    \* keypairs drawn by generate_ed25519: 1..MaxKey
MaxPending == 2    \* spawn_blocking closures waiting for the database
MaxSenders == 1    \* dial handlers suspended in send().await
MaxLimit   == 3    \* limit argument of get_recent_peer_addrs: 0..MaxLimit

\* ------------------------------------------------------ program constants
DialCap     == 32  \* mpsc::channel::<String>(32)
MinPassword == 8   \* req.password.len() < 8
HexLen      == 64  \* length of blake3 to_hex()
ShardLen    == 4   \* chunk_path slices id[0..2] and id[2..4]
RecentLimit == 32  \* get_recent_peer_addrs(&conn, 32, ..)
Week        == 604800  \* 7 * 24 * 3600
PeersLimit  == 100 \* get_p2p_peers: LIMIT 100

\* ------------------------------------------------------------ input sets
Times     == 0..MaxTime
Sids      == 1..MaxSid
Salts     == 1..MaxSalt
Tasks     == 1..MaxTasks
Usernames == {"alice", "bob", "", " "}
Passwords == {"password", "hunter22", "1234567", "short"}
Invites   == {"p", "q"}
Addrs     == {"/ip4/127.0.0.1/tcp/1"}
ListenAddrs == {"/ip4/10.0.0.1/tcp/4001", "/ip4/127.0.0.1/tcp/4001"}
OptTimes  == {{}} \cup {{t} : t \in Times}
OptMimes  == {{}, {"text/plain"}}

\* Cookie header: the sequence of its ;-separated components, trimmed.
\* A component is sid=<v> or some other name=value pair.
SidC(v)   == [k |-> "sid", v |-> v]
OtherC    == [k |-> "other", v |-> 0]
NoCookie  == <<>>
Cookies   == {NoCookie, <<OtherC>>} \cup {<<SidC(s)>> : s \in 0..MaxSid}

\* Byte strings.
EmptyData == [fill |-> 0, hi |-> 0, lo |-> 0]
Datas     == {EmptyData} \cup
             {d \in [fill : {1}, hi : 0..MaxHi, lo : 0..MaxLo] : d.hi + d.lo > 0}
IsEmpty(d) == d.hi = 0 /\ d.lo = 0

VARIABLES
    now,         \* time::OffsetDateTime::now_utc().unix_timestamp()
    users,       \* table users: username -> row
    manifests,   \* table manifests: id -> FileManifest
    disk,        \* chunk files under data_root: id -> contents
    sessions,    \* AppState.sessions: sid -> username
    invites,     \* AppState.invites: password -> expiry
    p2p_addrs,   \* AppState.p2p_addrs: listener addresses
    dial_queue,  \* the dial channel (p2p_dial_tx -> dial_rx)
    uploads,     \* upload_file requests in flight: task -> position
    last,        \* most recent response
    accepted,    \* history: username -> passwords accepted by set_password
    local_keys,  \* table local_keys: name -> row
    config,      \* table config: key -> value
    peers,       \* table peers: peer_id -> row
    peer_addrs,  \* table peer_addrs: set of rows, key (peer_id, addr)
    workers,     \* spawn_blocking closures of the peer engine not yet run
    proc,        \* the process: phase of main(), peer id, bind attempts
    dial_senders, \* post_p2p_dial handlers suspended in p2p_dial_tx.send()
    stored,      \* history: id -> manifest handed last to upsert_manifest
    swarm,       \* the libp2p swarm: last swarm.dial call, last warning logged
    db_lock      \* the closure that holds the database mutex between its
                 \* two statements

\* The database tables written at start-up and by the peer engine, the
\* engine's pending workers and the process itself.
node_vars == <<local_keys, config, peers, peer_addrs, workers, proc>>

vars == <<now, users, manifests, disk, sessions, invites, p2p_addrs,
          dial_queue, uploads, last, accepted, node_vars, dial_senders,
          stored, swarm, db_lock>>

\* ---------------------------------------------------------------- helpers
Put(f, k, v) == (k :> v) @@ f
Retain(f, keep(_, _)) == [k \in {x \in DOMAIN f : keep(x, f[x])} |-> f[k]]

Idle == [pc |-> "idle", cookie |-> <<>>, data |-> EmptyData, mime |-> {}]

Respond(op, status, req, out) ==
    last' = [n |-> 1 - last.n, op |-> op, status |-> status, req |-> req, out |-> out]

Responded == last'.n # last.n

\* ------------------------------------------------------------------ types
\* u64 / u32 values as limbs: value = hi * 2^32 + lo, lo < 2^32.
LenOf(d) == [hi |-> d.hi, lo |-> d.lo]
AsU64(n) == [hi |-> n.hi, lo |-> n.lo]
AsU32(n) == [hi |-> 0, lo |-> n.lo]

\* Sum of the u32 chunk sizes as a u64 (the low limbs of the model stay
\* below 2^32, so no carry arises).
Add64(a, b) == [hi |-> a.hi + b.hi, lo |-> a.lo + b.lo]

RECURSIVE SumSizes(_)
SumSizes(chunks) ==
    IF chunks = <<>> THEN [hi |-> 0, lo |-> 0]
    ELSE Add64(Head(chunks).size, SumSizes(Tail(chunks)))

\* chunk_id: blake3 hex digest, 64 characters, one per distinct content.
chunk_id(data) == [len |-> HexLen, h |-> <<data.fill, data.hi, data.lo>>]

\* chunk_path slices id[0..2] and id[2..4]: a shorter id panics.
PathPanics(id) == id.len < ShardLen

\* A path segment of two characters, such as "ab" in GET /chunks/ab.
ShortId == [len |-> 2, h |-> <<0, 0, 0>>]

ChunkIds == {chunk_id(d) : d \in Datas} \cup {ShortId}

\* Argon2::default().hash_password(password, salt).hash
Argon2(password, salt) == <<"argon2id", salt, password>>

\* SaltString::as_str().as_bytes() and SaltString::from_b64(from_utf8(..))
SaltBytes(salt)   == [b64 |-> salt]
SaltFromB64(bytes) == bytes.b64

IsBlank(s) == s \in {"", " "}

\* ----------------------------------------------------------- node identity
Keys == 1..MaxKey

\* Keypair::to_protobuf_encoding / from_protobuf_encoding: a blob that is
\* not such an encoding does not decode.
EncodeKey(k) == <<"protobuf", "ed25519", k>>
Garbage      == <<"garbage">>
DecodeKey(bytes) ==
    IF Len(bytes) = 3 /\ bytes[1] = "protobuf" THEN {bytes[3]} ELSE {}

\* local_key.public().to_peer_id().to_string()
ToPeerId(k) == <<"12D3KooW", k>>

\* SELECT key FROM local_keys WHERE name = ?1
get_local_key(tbl, name) ==
    IF name \in DOMAIN tbl THEN {tbl[name].key} ELSE {}

\* INSERT INTO local_keys .. ON CONFLICT(name) DO UPDATE SET key
set_local_key(tbl, name, key_bytes, created_ts) ==
    IF name \in DOMAIN tbl
    THEN [tbl EXCEPT ![name] = [@ EXCEPT !.key = key_bytes]]
    ELSE Put(tbl, name, [key |-> key_bytes, created_ts |-> created_ts])

\* INSERT INTO config .. ON CONFLICT(key) DO UPDATE SET value
set_config(tbl, key, value) == Put(tbl, key, value)

\* Variant: a blob that does not decode is replaced by a new keypair.
LoadIdentity_RotateOnCorrupt(tbl, fresh, t) ==
    LET maybe_key_bytes == get_local_key(tbl, "node")
        dec == UNION {DecodeKey(b) : b \in maybe_key_bytes}
    IN  IF dec # {}
        THEN [ok |-> TRUE, tbl |-> tbl, key |-> dec]
        ELSE [ok |-> TRUE, key |-> {fresh},
              tbl |-> set_local_key(tbl, "node", EncodeKey(fresh), t)]

\* spawn_p2p, identity part: decode the stored blob, or generate a keypair
\* and persist it when no blob is stored.  ok = FALSE is the Err return.
LoadIdentity(tbl, fresh, t) ==
    LET maybe_key_bytes == get_local_key(tbl, "node")
    IN  IF maybe_key_bytes # {}
        THEN LET dec == UNION {DecodeKey(b) : b \in maybe_key_bytes}
             IN  IF dec = {}
                 THEN [ok |-> FALSE, tbl |-> tbl, key |-> {}]
                 ELSE [ok |-> TRUE, tbl |-> tbl, key |-> dec]
        ELSE [ok |-> TRUE, key |-> {fresh},
              tbl |-> set_local_key(tbl, "node", EncodeKey(fresh), t)]

\* ---------------------------------------------------------- listener binds
\* What the operating system answers to a bind attempt.
BindResults == {"Ok", "AddrInUse", "Other"}
OsAnswers   == BindResults \X BindResults
AllOk       == <<"Ok", "Ok">>
HttpPort    == 9090

\* Variant: every failure of the first attempt is retried on port 0.
BindWithRetry_RetryOnAnyError(port, os) ==
    IF os[1] = "Ok"
    THEN [ok |-> TRUE, tries |-> <<[port |-> port, res |-> os[1]]>>]
    ELSE [ok |-> os[2] = "Ok",
          tries |-> <<[port |-> port, res |-> os[1]],
                      [port |-> 0, res |-> os[2]]>>]

\* swarm.listen_on / TcpListener::bind with the single retry: os[i] is the
\* answer to the i-th attempt.  tries lists the attempts made.
BindWithRetry(port, os) ==
    IF os[1] = "Ok"
    THEN [ok |-> TRUE, tries |-> <<[port |-> port, res |-> os[1]]>>]
    ELSE IF os[1] = "AddrInUse"
    THEN [ok |-> os[2] = "Ok",
          tries |-> <<[port |-> port, res |-> os[1]],
                      [port |-> 0, res |-> os[2]]>>]
    ELSE [ok |-> FALSE, tries |-> <<[port |-> port, res |-> os[1]]>>]

\* ------------------------------------------------------------- peer tables
PeerIds    == {"pidX", "pidY"}
PeerAddrs  == {"/ip4/10.0.0.2/tcp/4001", "/ip4/10.0.0.3/tcp/4001/p2p/pidX"}
BadAddr    == "not a multiaddr"

\* A string that parses but is not the text ma.to_string() gives back: the
\* port is written with a leading zero.
PaddedAddr == "/ip4/10.0.0.3/tcp/04001/p2p/pidX"

\* Variant: every string is taken as a multiaddress.
ParseMultiaddr_Lenient(s) == {s}

\* addr.parse::<Multiaddr>() followed by ma.to_string(): {} is Err.
ParseMultiaddr(s) ==
    IF s = BadAddr THEN {}
    ELSE IF s = PaddedAddr THEN {"/ip4/10.0.0.3/tcp/4001/p2p/pidX"}
    ELSE {s}

\* The peer id of the /p2p/ component of a multiaddress, if it has one.
P2pComponent(ma) ==
    IF ma = "/ip4/10.0.0.3/tcp/4001/p2p/pidX" THEN {"pidX"} ELSE {}

\* Variant: ON CONFLICT updates last_seen but not last_addr.
upsert_peer_KeepsAddr(tbl, peer_id, last_addr, last_seen) ==
    IF peer_id \in DOMAIN tbl
    THEN [tbl EXCEPT ![peer_id] = [@ EXCEPT !.last_seen = last_seen]]
    ELSE Put(tbl, peer_id, [last_addr |-> last_addr, last_seen |-> last_seen])

\* INSERT INTO peers .. ON CONFLICT(peer_id) DO UPDATE SET last_addr, last_seen
upsert_peer(tbl, peer_id, last_addr, last_seen) ==
    Put(tbl, peer_id, [last_addr |-> last_addr, last_seen |-> last_seen])

\* INSERT INTO peer_addrs .. ON CONFLICT(peer_id, addr) DO UPDATE SET last_seen
upsert_peer_addr(rows, peer_id, addr, last_seen) ==
    LET hit == {r \in rows : r.peer_id = peer_id /\ r.addr = addr}
    IN  IF hit # {}
        THEN (rows \ hit) \cup {[r EXCEPT !.last_seen = last_seen] : r \in hit}
        ELSE rows \cup {[peer_id |-> peer_id, addr |-> addr,
                         last_seen |-> last_seen]}

\* ORDER BY last_seen DESC: every arrangement of the rows in which last_seen
\* does not increase (SQL leaves the order of equal keys open).
Arrangements(S) ==
    {f \in [1..Cardinality(S) -> S] :
        \A i, j \in 1..Cardinality(S) : i # j => f[i] # f[j]}
OrderByLastSeenDesc(S) ==
    {f \in Arrangements(S) :
        \A i, j \in 1..Cardinality(S) :
           i < j => f[i].last_seen >= f[j].last_seen}

\* LIMIT k
Limit(seq, k) == [i \in 1..(IF k < Len(seq) THEN k ELSE Len(seq)) |-> seq[i]]

\* Variant: the WHERE last_seen >= ?1 clause is missing.
get_recent_peer_addrs_NoMin(rows, limit, min_last_seen) ==
    {[i \in DOMAIN Limit(f, limit) |-> <<f[i].peer_id, f[i].addr>>] :
        f \in OrderByLastSeenDesc(rows)}

\* The possible results of get_recent_peer_addrs: (peer_id, addr) pairs.
get_recent_peer_addrs(rows, limit, min_last_seen) ==
    LET sel == IF min_last_seen = {} THEN rows
               ELSE {r \in rows : \A min_ts \in min_last_seen :
                                     r.last_seen >= min_ts}
    IN  {[i \in DOMAIN Limit(f, limit) |-> <<f[i].peer_id, f[i].addr>>] :
            f \in OrderByLastSeenDesc(sel)}

\* The possible results of the query of get_p2p_peers: PeerSummary rows.
get_p2p_peers(tbl) ==
    LET rows == {[peer_id |-> p, last_addr |-> tbl[p].last_addr,
                  last_seen |-> tbl[p].last_seen] : p \in DOMAIN tbl}
    IN  {Limit(f, PeersLimit) : f \in OrderByLastSeenDesc(rows)}

\* ---------------------------------------------------------------- process
\* phase: "down" (not running), "boot" (spawn_p2p has returned, main sends
\* the bootstrap dials), "serving" (axum::serve).  exit tells why a process
\* that is down ended.
Down(why, p2p_tries, http_tries) ==
    [phase |-> "down", peer_id |-> {}, p2p_listen |-> p2p_tries,
     http_listen |-> http_tries, boot |-> <<>>, exit |-> why]
Up(phase, key, p2p_tries, http_tries, boot) ==
    [phase |-> phase, peer_id |-> {ToPeerId(k) : k \in key},
     p2p_listen |-> p2p_tries, http_listen |-> http_tries, boot |-> boot,
     exit |-> "none"]

\* The swarm before its first dial and with nothing logged; n flips on every
\* call of swarm.dial.
NoSwarm == [n |-> 0, addr |-> "", res |-> "none", warn |-> "none"]

Serving  == proc.phase = "serving"
\* Variant: the engine task only starts to run once HTTP is served.
EngineUp_AfterBind == proc.phase = "serving"

EngineUp == proc.phase \in {"boot", "serving"}

\* ------------------------------------------------------------------ Init
\* A node that was installed and started once: the first start generated
\* keypair 1, both binds succeeded at once and the node is serving.
Init ==
    /\ now = 0
    /\ users = <<>>
    /\ manifests = <<>>
    /\ disk = <<>>
    /\ sessions = <<>>
    /\ invites = <<>>
    /\ p2p_addrs = <<>>
    /\ dial_queue = <<>>
    /\ uploads = [t \in Tasks |-> Idle]
    /\ last = [n |-> 0, op |-> "none", status |-> 0, req |-> <<>>, out |-> <<>>]
    /\ accepted = <<>>
    /\ local_keys = Put(<<>>, "node", [key |-> EncodeKey(1), created_ts |-> 0])
    /\ config = Put(<<>>, "peer_id", ToPeerId(1))
    /\ peers = <<>>
    /\ peer_addrs = {}
    /\ workers = {}
    /\ proc = Up("serving", {1}, BindWithRetry(0, AllOk).tries,
                 BindWithRetry(HttpPort, AllOk).tries, <<>>)
    /\ dial_senders = <<>>
    /\ stored = <<>>
    /\ swarm = NoSwarm
    /\ db_lock = {}

\* ------------------------------------------------------- session admission
\* Variant: the last sid= component is used.
CookieSid_Last(cookie) ==
    LET idx == {i \in DOMAIN cookie : cookie[i].k = "sid"}
    IN  IF idx = {} THEN {}
        ELSE {cookie[CHOOSE i \in idx : \A j \in idx : i >= j].v}

\* RequireAuth::from_request_parts: first sid= component, looked up in the
\* session map.  {} is the 401 rejection, {user} the admitted user.
CookieSid(cookie) ==
    LET idx == {i \in DOMAIN cookie : cookie[i].k = "sid"}
    IN  IF idx = {} THEN {}
        ELSE {cookie[CHOOSE i \in idx : \A j \in idx : i <= j].v}

\* Variant: an unknown sid is admitted under the default (empty) username.
RequireAuth_UnwrapOrDefault(cookie, sess) ==
    LET sid == CookieSid(cookie)
    IN  IF sid = {} THEN {}
        ELSE {IF s \in DOMAIN sess THEN sess[s] ELSE "" : s \in sid}

RequireAuth(cookie, sess) ==
    LET sid == CookieSid(cookie)
    IN  IF sid = {} THEN {}
        ELSE {sess[s] : s \in sid \cap DOMAIN sess}


\* ------------------------------------------------------------ db.rs tables
get_user(tbl, username) ==
    IF username \in DOMAIN tbl THEN {tbl[username]} ELSE {}

\* Variant: ON CONFLICT updates pwd_hash and expires_ts but not salt.
upsert_user_KeepsSalt(tbl, username, pwd_hash, salt, created_ts, expires_ts) ==
    IF username \in DOMAIN tbl
    THEN [tbl EXCEPT ![username] =
              [@ EXCEPT !.pwd_hash = pwd_hash, !.expires_ts = expires_ts]]
    ELSE Put(tbl, username,
             [pwd_hash |-> pwd_hash, salt |-> salt,
              created_ts |-> created_ts, expires_ts |-> expires_ts])

\* Variant: INSERT OR REPLACE, the row is rewritten with the new created_ts.
upsert_user_Replace(tbl, username, pwd_hash, salt, created_ts, expires_ts) ==
    Put(tbl, username,
        [pwd_hash |-> pwd_hash, salt |-> salt,
         created_ts |-> created_ts, expires_ts |-> expires_ts])

\* INSERT ... ON CONFLICT(username) DO UPDATE SET pwd_hash, salt, expires_ts
upsert_user(tbl, username, pwd_hash, salt, created_ts, expires_ts) ==
    IF username \in DOMAIN tbl
    THEN [tbl EXCEPT ![username] =
              [@ EXCEPT !.pwd_hash = pwd_hash, !.salt = salt,
                        !.expires_ts = expires_ts]]
    ELSE Put(tbl, username,
             [pwd_hash |-> pwd_hash, salt |-> salt,
              created_ts |-> created_ts, expires_ts |-> expires_ts])

\* UPDATE users SET expires_ts = ?2 WHERE username = ?1
set_user_expiry(tbl, username, expires_ts) ==
    IF username \in DOMAIN tbl
    THEN [tbl EXCEPT ![username] = [@ EXCEPT !.expires_ts = expires_ts]]
    ELSE tbl

\* Variant: INSERT OR IGNORE, a row that exists is kept.
upsert_manifest_InsertOrIgnore(tbl, id, manifest_json) ==
    IF id \in DOMAIN tbl THEN tbl ELSE Put(tbl, id, manifest_json)

\* INSERT OR REPLACE INTO manifests (id, manifest)
upsert_manifest(tbl, id, manifest_json) == Put(tbl, id, manifest_json)

\* serde_json::to_string(&FileManifest) and serde_json::from_str
ToJson(man) ==
    <<"total_size", man.total_size, "chunks", man.chunks,
      "mime", man.mime, "created_ts", man.created_ts>>
FromJson(text) ==
    [total_size |-> text[2], chunks |-> text[4], mime |-> text[6],
     created_ts |-> text[8]]

\* SELECT manifest FROM manifests WHERE id = ?1 and serde_json::from_str:
\* {} when no row has that id.
get_manifest(tbl, id) ==
    IF id \in DOMAIN tbl THEN {FromJson(tbl[id])} ELSE {}

\* ------------------------------------------------------------------ clock
Tick ==
    /\ now < MaxTime
    /\ now' = now + 1
    /\ UNCHANGED <<db_lock, stored, swarm, users, manifests, disk, sessions,
                   invites, p2p_addrs, dial_queue, uploads, last, accepted,
                   node_vars, dial_senders>>

\* --------------------------------------------------- POST /auth/set_password
\* Variant: the request is refused only when both checks fail.
post_set_password_RejectsOnlyBoth(username, password, expires_ts, salt) ==
    IF IsBlank(username) /\ Len(password) < MinPassword
    THEN /\ Respond("set_password", 400,
                    [username |-> username, password |-> password,
                     expires_ts |-> expires_ts], <<>>)
         /\ UNCHANGED <<users, accepted>>
    ELSE LET hash == Argon2(password, salt)
         IN  /\ users' = upsert_user(users, username, hash, SaltBytes(salt),
                                     now, expires_ts)
             /\ accepted' = Put(accepted, username,
                    [cur  |-> password,
                     prev |-> IF username \in DOMAIN accepted
                              THEN {accepted[username].cur} ELSE {}])
             /\ Respond("set_password", 200,
                        [username |-> username, password |-> password,
                         expires_ts |-> expires_ts], <<>>)

\* username.trim().is_empty() || password.len() < 8: the passwords of the
\* model are ASCII, one byte per character.
post_set_password(username, password, expires_ts, salt) ==
    IF IsBlank(username) \/ Len(password) < MinPassword
    THEN /\ Respond("set_password", 400,
                    [username |-> username, password |-> password,
                     expires_ts |-> expires_ts], <<>>)
         /\ UNCHANGED <<users, accepted>>
    ELSE LET hash == Argon2(password, salt)
         IN  /\ users' = upsert_user(users, username, hash, SaltBytes(salt),
                                     now, expires_ts)
             /\ accepted' = Put(accepted, username,
                    [cur  |-> password,
                     prev |-> IF username \in DOMAIN accepted
                              THEN {accepted[username].cur} ELSE {}])
             /\ Respond("set_password", 200,
                        [username |-> username, password |-> password,
                         expires_ts |-> expires_ts], <<>>)

PostSetPassword(I) ==
    /\ Serving
    /\ \E u \in I.users, p \in I.pwds, e \in I.exps, s \in I.salts :
           post_set_password(u, p, e, s)
    /\ UNCHANGED <<db_lock, stored, swarm, now, manifests, disk, sessions,
                   invites, p2p_addrs, dial_queue, uploads, node_vars,
                   dial_senders>>

\* db::set_user_expiry, the storage operation that locks a user out
SetUserExpiry(I) ==
    /\ \E u \in I.users, e \in I.exps :
           users' = set_user_expiry(users, u, e)
    /\ UNCHANGED <<db_lock, stored, swarm, now, manifests, disk, sessions,
                   invites, p2p_addrs, dial_queue, uploads, last, accepted,
                   node_vars, dial_senders>>

\* ---------------------------------------------------------- POST /auth/login
\* Variant: the password already counts as expired at its expiry instant.
LoginVerdict_ExpiredAtDeadline(row, password, t) ==
    IF row = {} THEN 401
    ELSE LET user == CHOOSE r \in row : TRUE
         IN  IF user.expires_ts # {} /\ (\E exp \in user.expires_ts : t >= exp)
             THEN 401
             ELSE IF Argon2(password, SaltFromB64(user.salt)) # user.pwd_hash
                  THEN 401
                  ELSE 200

\* Absent row, expired password (now > exp) or hash mismatch: 401.
LoginVerdict(row, password, t) ==
    IF row = {} THEN 401
    ELSE LET user == CHOOSE r \in row : TRUE
         IN  IF user.expires_ts # {} /\ (\E exp \in user.expires_ts : t > exp)
             THEN 401
             ELSE IF Argon2(password, SaltFromB64(user.salt)) # user.pwd_hash
                  THEN 401
                  ELSE 200

\* Variant: a login replaces the earlier sessions of the same user.
post_login_SingleSession(username, password, sid) ==
    LET row    == get_user(users, username)
        status == LoginVerdict(row, password, now)
        req    == [username |-> username, password |-> password]
    IN  IF status = 200
        THEN /\ sid \notin DOMAIN sessions
             /\ sessions' = Put(Retain(sessions, LAMBDA k, v : v # username),
                                sid, username)
             /\ Respond("login", 200, req, {sid})
        ELSE /\ UNCHANGED sessions
             /\ Respond("login", status, req, {})

post_login(username, password, sid) ==
    LET row    == get_user(users, username)
        status == LoginVerdict(row, password, now)
        req    == [username |-> username, password |-> password]
    IN  IF status = 200
        THEN /\ sid \notin DOMAIN sessions
             /\ sessions' = Put(sessions, sid, username)
             /\ Respond("login", 200, req, {sid})
        ELSE /\ UNCHANGED sessions
             /\ Respond("login", status, req, {})

PostLogin(I) ==
    /\ Serving
    /\ \E u \in I.logins, p \in I.pwds, sid \in I.sids : post_login(u, p, sid)
    /\ UNCHANGED <<db_lock, stored, swarm, now, users, manifests, disk,
                   invites, p2p_addrs, dial_queue, uploads, accepted,
                   node_vars, dial_senders>>

\* --------------------------------------------------------- POST /auth/logout
\* Variant: only the session named by the caller's cookie is removed.
post_logout_OnlyCaller(cookie) ==
    LET auth == RequireAuth(cookie, sessions)
        req  == [cookie |-> cookie, user |-> auth]
    IN  IF auth = {}
        THEN /\ UNCHANGED sessions
             /\ Respond("logout", 401, req, <<>>)
        ELSE /\ sessions' = Retain(sessions, LAMBDA k, v : k \notin CookieSid(cookie))
             /\ Respond("logout", 200, req, <<>>)

post_logout(cookie) ==
    LET auth == RequireAuth(cookie, sessions)
        req  == [cookie |-> cookie, user |-> auth]
    IN  IF auth = {}
        THEN /\ UNCHANGED sessions
             /\ Respond("logout", 401, req, <<>>)
        ELSE /\ sessions' = Retain(sessions, LAMBDA k, v : v \notin auth)
             /\ Respond("logout", 200, req, <<>>)

PostLogout(I) ==
    /\ Serving
    /\ \E c \in I.cookies : post_logout(c)
    /\ UNCHANGED <<db_lock, stored, swarm, now, users, manifests, disk,
                   invites, p2p_addrs, dial_queue, uploads, accepted,
                   node_vars, dial_senders>>


\* ------------------------------------------------------------ peer engine
\* SwarmEvent::NewListenAddr: push the address unless it is already listed.
NewListenAddr(I) ==
    /\ EngineUp
    /\ \E a \in I.laddrs :
           p2p_addrs' = IF \E i \in DOMAIN p2p_addrs : p2p_addrs[i] = a
                        THEN p2p_addrs
                        ELSE Append(p2p_addrs, a)
    /\ UNCHANGED <<db_lock, stored, swarm, now, users, manifests, disk,
                   sessions, invites, dial_queue, uploads, last, accepted,
                   node_vars, dial_senders>>

\* ---------------------------------------------------------- POST /p2p/invite
\* Variant: the invite is stored before the listener address is looked up.
post_p2p_invite_StoresFirst(cookie, password, expires) ==
    LET auth == RequireAuth(cookie, sessions)
        req  == [cookie |-> cookie, user |-> auth,
                 password |-> password, expires |-> expires]
    IN  IF auth = {}
        THEN /\ UNCHANGED invites
             /\ Respond("invite", 401, req, <<>>)
        ELSE /\ invites' = Put(invites, password, expires)
             /\ IF p2p_addrs = <<>>
                THEN Respond("invite", 500, req, <<>>)
                ELSE Respond("invite", 200, req,
                             [addr |-> Head(p2p_addrs), password |-> password,
                              expires |-> expires])

post_p2p_invite(cookie, password, expires) ==
    LET auth == RequireAuth(cookie, sessions)
        req  == [cookie |-> cookie, user |-> auth,
                 password |-> password, expires |-> expires]
    IN  IF auth = {}
        THEN /\ UNCHANGED invites
             /\ Respond("invite", 401, req, <<>>)
        ELSE IF p2p_addrs = <<>>
        THEN /\ UNCHANGED invites
             /\ Respond("invite", 500, req, <<>>)
        ELSE /\ invites' = Put(invites, password, expires)
             /\ Respond("invite", 200, req,
                        [addr |-> Head(p2p_addrs), password |-> password,
                         expires |-> expires])

PostP2pInvite(I) ==
    /\ Serving
    /\ \E c \in I.cookies, p \in I.invs, e \in I.invexps : post_p2p_invite(c, p, e)
    /\ UNCHANGED <<db_lock, stored, swarm, now, users, manifests, disk,
                   sessions, p2p_addrs, dial_queue, uploads, accepted,
                   node_vars, dial_senders>>

\* ------------------------------------------------------------ POST /p2p/dial
\* Variant: the route has no extractor and every caller reaches the handler.
DialRoute_Open(cookie, sess) == {""}

\* The route extracts RequireAuth before the handler runs.
DialRoute(cookie, sess) == RequireAuth(cookie, sess)

\* Variant: the expiry of the invite is not compared with the clock.
InviteValid_NoExpiry(inv, password, t) == password \in DOMAIN inv

\* match exp { Some(exp) if now <= exp => .. }
InviteValid(inv, password, t) ==
    password \in DOMAIN inv /\ t <= inv[password]

\* Variant: try_send, a full channel is answered 500 and the address is lost.
post_p2p_dial_TrySend(cookie, addr, password) ==
    LET auth == DialRoute(cookie, sessions)
        req  == [cookie |-> cookie, user |-> auth,
                 addr |-> addr, password |-> password]
    IN  /\ UNCHANGED dial_senders
        /\ IF auth = {} \/ ~InviteValid(invites, password, now)
           THEN /\ UNCHANGED dial_queue
                /\ Respond("dial", 401, req, <<>>)
           ELSE IF Len(dial_queue) < DialCap
           THEN /\ dial_queue' = Append(dial_queue, addr)
                /\ Respond("dial", 200, req,
                           [status |-> "dialing", addr |-> addr])
           ELSE /\ UNCHANGED dial_queue
                /\ Respond("dial", 500, req, <<>>)

post_p2p_dial(cookie, addr, password) ==
    LET auth == DialRoute(cookie, sessions)
        req  == [cookie |-> cookie, user |-> auth,
                 addr |-> addr, password |-> password]
    IN  IF auth = {}
        THEN /\ UNCHANGED <<dial_queue, dial_senders>>
             /\ Respond("dial", 401, req, <<>>)
        ELSE IF InviteValid(invites, password, now)
        THEN IF Len(dial_queue) < DialCap
             THEN /\ dial_queue' = Append(dial_queue, addr)
                  /\ Respond("dial", 200, req,
                             [status |-> "dialing", addr |-> addr])
                  /\ UNCHANGED dial_senders
             ELSE \* p2p_dial_tx.send(addr).await suspends the handler
                  /\ dial_senders' = Append(dial_senders, req)
                  /\ UNCHANGED <<dial_queue, last>>
        ELSE /\ UNCHANGED <<dial_queue, dial_senders>>
             /\ Respond("dial", 401, req, <<>>)

\* Variant: an accepted dial removes the invite it used.
PostP2pDial_ConsumesInvite(I) ==
    /\ Serving
    /\ \E c \in I.cookies, a \in I.addrs, p \in I.invs :
          /\ post_p2p_dial(c, a, p)
          /\ invites' = IF dial_queue' # dial_queue
                        THEN [q \in DOMAIN invites \ {p} |-> invites[q]]
                        ELSE invites
    /\ Len(dial_queue') <= I.qmax
    /\ Len(dial_senders') <= MaxSenders
    /\ UNCHANGED <<db_lock, stored, swarm, now, users, manifests, disk,
                   sessions, p2p_addrs, uploads, accepted, node_vars>>

\* I.qmax and MaxSenders cap the queue and the suspended handlers.
PostP2pDial(I) ==
    /\ Serving
    /\ \E c \in I.cookies, a \in I.addrs, p \in I.invs : post_p2p_dial(c, a, p)
    /\ Len(dial_queue') <= I.qmax
    /\ Len(dial_senders') <= MaxSenders
    /\ UNCHANGED <<db_lock, stored, swarm, now, users, manifests, disk,
                   sessions, invites, p2p_addrs, uploads, accepted,
                   node_vars>>

\* The channel has room again: a suspended send completes and its handler
\* answers.
DialSendResumes ==
    /\ Serving
    /\ dial_senders # <<>>
    /\ Len(dial_queue) < DialCap
    /\ LET req == Head(dial_senders)
       IN  /\ dial_queue' = Append(dial_queue, req.addr)
           /\ Respond("dial", 200, req,
                      [status |-> "dialing", addr |-> req.addr])
    /\ dial_senders' = Tail(dial_senders)
    /\ UNCHANGED <<db_lock, stored, swarm, now, users, manifests, disk,
                   sessions, invites, p2p_addrs, uploads, accepted,
                   node_vars>>

\* --------------------------------------------------------------- POST /upload
\* Variant: the manifest row is written when the request is admitted, before
\* any chunk file is created.
UploadBegin_ManifestFirst(I, t) ==
    /\ Serving
    /\ uploads[t].pc = "idle"
    /\ \E c \in I.cookies, data \in I.datas, mime \in I.mimes :
         LET auth == RequireAuth(c, sessions)
             req  == [cookie |-> c, user |-> auth, data |-> data, mime |-> mime]
         IN  IF auth = {}
             THEN /\ Respond("upload", 401, req, <<>>)
                  /\ UNCHANGED <<disk, uploads, manifests>>
             ELSE IF IsEmpty(data)
             THEN /\ Respond("upload", 400, req, <<>>)
                  /\ UNCHANGED <<disk, uploads, manifests>>
             ELSE /\ manifests' = Put(manifests, chunk_id(data),
                         <<"total_size", AsU64(LenOf(data)),
                           "chunks", <<[id |-> chunk_id(data),
                                        size |-> AsU32(LenOf(data))]>>,
                           "mime", mime, "created_ts", now>>)
                  /\ uploads' = [uploads EXCEPT ![t] =
                         [pc |-> "created", cookie |-> c, data |-> data,
                          mime |-> mime]]
                  /\ UNCHANGED <<last, disk>>
    /\ UNCHANGED <<db_lock, stored, swarm, now, users, sessions, invites,
                   p2p_addrs, dial_queue, accepted, node_vars, dial_senders>>

\* First part of the request: session admission, multipart read, empty check,
\* chunk_id, create_dir_all and File::create, which truncates the chunk file.
UploadBegin(I, t) ==
    /\ Serving
    /\ uploads[t].pc = "idle"
    /\ \E c \in I.cookies, data \in I.datas, mime \in I.mimes :
         LET auth == RequireAuth(c, sessions)
             req  == [cookie |-> c, user |-> auth, data |-> data, mime |-> mime]
         IN  IF auth = {}
             THEN /\ Respond("upload", 401, req, <<>>)
                  /\ UNCHANGED <<disk, uploads>>
             ELSE IF IsEmpty(data)
             THEN /\ Respond("upload", 400, req, <<>>)
                  /\ UNCHANGED <<disk, uploads>>
             ELSE /\ disk' = Put(disk, chunk_id(data), EmptyData)
                  /\ uploads' = [uploads EXCEPT ![t] =
                         [pc |-> "created", cookie |-> c, data |-> data,
                          mime |-> mime]]
                  /\ UNCHANGED last
    /\ UNCHANGED <<db_lock, stored, swarm, now, users, manifests, sessions,
                   invites, p2p_addrs, dial_queue, accepted, node_vars,
                   dial_senders>>

\* f.write_all(&file_bytes) and f.flush(): the bytes reach the file.  Until
\* then the file is the truncated one that File::create left.
UploadWrite(t) ==
    /\ uploads[t].pc = "created"
    /\ disk' = Put(disk, chunk_id(uploads[t].data), uploads[t].data)
    /\ uploads' = [uploads EXCEPT ![t].pc = "written"]
    /\ UNCHANGED <<db_lock, stored, swarm, now, users, manifests, sessions,
                   invites, p2p_addrs, dial_queue, last, accepted, node_vars,
                   dial_senders>>

\* FileManifest { total_size: len as u64, chunks: [ChunkRef {id, size: len as u32}] }
MakeManifest(data, mime, ts) ==
    [total_size |-> AsU64(LenOf(data)),
     chunks     |-> <<[id |-> chunk_id(data), size |-> AsU32(LenOf(data))]>>,
     mime       |-> mime,
     created_ts |-> ts]

\* Build the manifest, upsert it and answer with it.
UploadFinish(t) ==
    /\ uploads[t].pc = "written"
    /\ LET data == uploads[t].data
           man  == MakeManifest(data, uploads[t].mime, now)
       IN  /\ manifests' = upsert_manifest(manifests, chunk_id(data), ToJson(man))
           /\ stored' = Put(stored, chunk_id(data), man)
           /\ Respond("upload", 200,
                      [cookie |-> uploads[t].cookie, user |-> {}, data |-> data,
                       mime |-> uploads[t].mime], man)
    /\ uploads' = [uploads EXCEPT ![t] = Idle]
    /\ UNCHANGED <<db_lock, swarm, now, users, disk, sessions, invites,
                   p2p_addrs, dial_queue, accepted, node_vars, dial_senders>>

\* ------------------------------------------------------------ GET /chunks/:id
\* Result of the handler on the current disk: status 0 is a panic in
\* chunk_path, which aborts the handler without a response.
get_chunk(files, id) ==
    IF PathPanics(id) THEN [status |-> 0, body |-> {}]
    ELSE IF id \in DOMAIN files THEN [status |-> 200, body |-> {files[id]}]
    ELSE [status |-> 404, body |-> {}]

GetChunk(I) ==
    /\ Serving
    /\ \E id \in I.ids :
         LET r == get_chunk(disk, id)
         IN  Respond("get_chunk", r.status, [id |-> id], r.body)
    /\ UNCHANGED <<db_lock, stored, swarm, now, users, manifests, disk,
                   sessions, invites, p2p_addrs, dial_queue, uploads,
                   accepted, node_vars, dial_senders>>

\* ------------------------------------------------- manifests read by id
GetManifest(I) ==
    /\ \E id \in I.ids :
          Respond("get_manifest", 0, [id |-> id], get_manifest(manifests, id))
    /\ UNCHANGED <<db_lock, stored, swarm, now, users, manifests, disk,
                   sessions, invites, p2p_addrs, dial_queue, uploads,
                   accepted, node_vars, dial_senders>>

\* ------------------------------------------------------------ peer engine
\* The closure handed to spawn_blocking: it carries the timestamp read when
\* the event was handled.
Observation(pid, addr, ts) == [peer_id |-> pid, addr |-> addr, ts |-> ts]

\* Variant: the loop ends at the first string that does not parse.
EngineDial_StopsOnInvalid ==
    /\ EngineUp
    /\ swarm.warn # "invalid multiaddr"
    /\ dial_queue # <<>>
    /\ dial_queue' = Tail(dial_queue)
    /\ LET ma == ParseMultiaddr(Head(dial_queue))
       IN  /\ workers' = workers \cup
              {Observation(pid, addr_str, now) :
                  pid \in UNION {P2pComponent(m) : m \in ma}, addr_str \in ma}
           /\ IF ma = {}
              THEN swarm' = [swarm EXCEPT !.warn = "invalid multiaddr"]
              ELSE \E m \in ma, res \in {"Ok", "Err"} :
                      swarm' = [n |-> 1 - swarm.n, addr |-> m, res |-> res,
                                warn |-> IF res = "Err" THEN "p2p dial error"
                                         ELSE swarm.warn]
    /\ Cardinality(workers') <= MaxPending
    /\ UNCHANGED <<db_lock, stored, now, users, manifests, disk, sessions,
                   invites, p2p_addrs, uploads, last, accepted, local_keys,
                   config, peers, peer_addrs, proc, dial_senders>>

\* Some(addr) = dial_rx.recv(): parse, note the peer of a /p2p/ component,
\* swarm.dial.
EngineDial ==
    /\ EngineUp
    /\ dial_queue # <<>>
    /\ dial_queue' = Tail(dial_queue)
    /\ LET ma == ParseMultiaddr(Head(dial_queue))
       IN  /\ workers' = workers \cup
              {Observation(pid, addr_str, now) :
                  pid \in UNION {P2pComponent(m) : m \in ma}, addr_str \in ma}
           /\ IF ma = {}
              THEN swarm' = [swarm EXCEPT !.warn = "invalid multiaddr"]
              ELSE \E m \in ma, res \in {"Ok", "Err"} :
                      swarm' = [n |-> 1 - swarm.n, addr |-> m, res |-> res,
                                warn |-> IF res = "Err" THEN "p2p dial error"
                                         ELSE swarm.warn]
    /\ Cardinality(workers') <= MaxPending
    /\ UNCHANGED <<db_lock, stored, now, users, manifests, disk, sessions,
                   invites, p2p_addrs, uploads, last, accepted, local_keys,
                   config, peers, peer_addrs, proc, dial_senders>>

\* mdns::Event::Discovered(list): one worker per (pid, addr) of the list.
Discovered(I) ==
    /\ EngineUp
    /\ \E list \in (SUBSET (I.pids \X I.maddrs)) \ {{}} :
          workers' = workers \cup {Observation(e[1], e[2], now) : e \in list}
    /\ Cardinality(workers') <= MaxPending
    /\ UNCHANGED <<db_lock, stored, swarm, now, users, manifests, disk,
                   sessions, invites, p2p_addrs, dial_queue, uploads, last,
                   accepted, local_keys, config, peers, peer_addrs, proc,
                   dial_senders>>

\* SwarmEvent::ConnectionEstablished: the dialed address or the send-back
\* address of the remote.
ConnectionEstablished(I) ==
    /\ EngineUp
    /\ \E pid \in I.pids, addr \in I.maddrs :
          workers' = workers \cup {Observation(pid, addr, now)}
    /\ Cardinality(workers') <= MaxPending
    /\ UNCHANGED <<db_lock, stored, swarm, now, users, manifests, disk,
                   sessions, invites, p2p_addrs, dial_queue, uploads, last,
                   accepted, local_keys, config, peers, peer_addrs, proc,
                   dial_senders>>

\* SwarmEvent::OutgoingConnectionError / IncomingConnectionError: logged.
ConnectionError ==
    /\ EngineUp
    /\ \E w \in {"p2p outgoing conn error", "p2p incoming conn error"} :
          swarm' = [swarm EXCEPT !.warn = w]
    /\ UNCHANGED <<db_lock, stored, now, users, manifests, disk, sessions,
                   invites, p2p_addrs, dial_queue, uploads, last, accepted,
                   node_vars, dial_senders>>

\* The mutex is free: no closure is between its two statements.
DbFree == db_lock = {}

\* A blocking worker takes the database mutex and runs its first statement,
\* upsert_peer, which commits on its own.  The pool runs the pending
\* closures in any order.
WorkerRun(w) ==
    /\ w \in workers
    /\ DbFree
    /\ peers' = upsert_peer(peers, w.peer_id, {w.addr}, w.ts)
    /\ workers' = workers \ {w}
    /\ db_lock' = {w}
    /\ UNCHANGED <<stored, swarm, now, users, manifests, disk, sessions,
                   invites, p2p_addrs, dial_queue, uploads, last, accepted,
                   local_keys, config, peer_addrs, proc, dial_senders>>

\* The worker runs its second statement, upsert_peer_addr, and drops the
\* mutex guard.
WorkerFinish ==
    /\ \E w \in db_lock :
          peer_addrs' = upsert_peer_addr(peer_addrs, w.peer_id, w.addr, w.ts)
    /\ db_lock' = {}
    /\ UNCHANGED <<stored, swarm, now, users, manifests, disk, sessions,
                   invites, p2p_addrs, dial_queue, uploads, last, accepted,
                   local_keys, config, peers, workers, proc, dial_senders>>

AllObservations ==
    {Observation(pid, addr, ts) :
        pid \in PeerIds, addr \in PeerAddrs, ts \in Times}

Worker == \E w \in workers : WorkerRun(w)

\* -------------------------------------------------------------- GET /p2p/peers
GetP2pPeers ==
    /\ Serving
    /\ DbFree
    /\ \E out \in get_p2p_peers(peers) : Respond("peers", 200, <<>>, out)
    /\ UNCHANGED <<db_lock, stored, swarm, now, users, manifests, disk,
                   sessions, invites, p2p_addrs, dial_queue, uploads,
                   accepted, node_vars, dial_senders>>

\* ------------------------------------------------- db::get_recent_peer_addrs
GetRecentPeerAddrs(I) ==
    /\ DbFree
    /\ \E k \in I.limits, min \in I.mins :
       \E out \in get_recent_peer_addrs(peer_addrs, k, min) :
          Respond("get_recent_peer_addrs", 0,
                  [limit |-> k, min_last_seen |-> min], out)
    /\ UNCHANGED <<db_lock, stored, swarm, now, users, manifests, disk,
                   sessions, invites, p2p_addrs, dial_queue, uploads,
                   accepted, node_vars, dial_senders>>

\* ----------------------------------------------------------------- start-up
\* The process ends (killed, or serve returned): what lives in memory is gone.
MemoryLost ==
    /\ sessions' = <<>>
    /\ invites' = <<>>
    /\ p2p_addrs' = <<>>
    /\ dial_queue' = <<>>
    /\ uploads' = [t \in Tasks |-> Idle]
    /\ workers' = {}
    /\ dial_senders' = <<>>
    /\ swarm' = NoSwarm
    /\ db_lock' = {}

Exit ==
    /\ proc.phase # "down"
    /\ MemoryLost
    /\ proc' = Down("killed", proc.p2p_listen, proc.http_listen)
    /\ UNCHANGED <<stored, now, users, manifests, disk, last, accepted,
                   local_keys, config, peers, peer_addrs>>

\* Variant: the --peer arguments are sent before the recent peers.
BootList_CliFirst(rows, t, cli) ==
    {cli \o [i \in DOMAIN r |-> r[i][2]] :
        r \in get_recent_peer_addrs(rows, RecentLimit, {t - Week})}

\* The addresses main() sends to the dial channel before it serves: the
\* recent peers of the last 7 days, at most 32, then the --peer arguments.
BootList(rows, t, cli) ==
    {[i \in DOMAIN r |-> r[i][2]] \o cli :
        r \in get_recent_peer_addrs(rows, RecentLimit, {t - Week})}

\* main() up to the end of spawn_p2p: identity, config["peer_id"], the p2p
\* listener; then the recent-peer query.  An Err ends the process.
StartP2p(I) ==
    /\ proc.phase = "down"
    /\ \E fresh \in I.keys, os \in I.p2p_os, cli \in I.cli :
         LET id     == LoadIdentity(local_keys, fresh, now)
             listen == BindWithRetry(0, os)
         IN  IF ~id.ok
             THEN /\ proc' = Down("identity", <<>>, <<>>)
                  /\ UNCHANGED <<local_keys, config>>
             ELSE /\ local_keys' = id.tbl
                  /\ config' = set_config(config, "peer_id",
                                   CHOOSE pid \in {ToPeerId(k) : k \in id.key} : TRUE)
                  /\ IF listen.ok
                     THEN \E boot \in BootList(peer_addrs, now, cli) :
                             proc' = Up("boot", id.key, listen.tries, <<>>, boot)
                     ELSE proc' = Down("p2p_listen", listen.tries, <<>>)
    /\ UNCHANGED <<db_lock, stored, swarm, now, users, manifests, disk,
                   sessions, invites, p2p_addrs, dial_queue, uploads, last,
                   accepted, peers, peer_addrs, workers, dial_senders>>

\* dial.send(addr).await of the bootstrap loops: waits while the channel is
\* full.
BootSend ==
    /\ proc.phase = "boot"
    /\ proc.boot # <<>>
    /\ Len(dial_queue) < DialCap
    /\ dial_queue' = Append(dial_queue, Head(proc.boot))
    /\ proc' = [proc EXCEPT !.boot = Tail(proc.boot)]
    /\ UNCHANGED <<db_lock, stored, swarm, now, users, manifests, disk,
                   sessions, invites, p2p_addrs, uploads, last, accepted,
                   local_keys, config, peers, peer_addrs, workers,
                   dial_senders>>

\* TcpListener::bind with the fallback to port 0; an Err ends the process.
HttpBind(I) ==
    /\ proc.phase = "boot"
    /\ proc.boot = <<>>
    /\ \E os \in I.http_os :
         LET bind == BindWithRetry(HttpPort, os)
         IN  IF bind.ok
             THEN /\ proc' = [proc EXCEPT !.phase = "serving",
                                          !.http_listen = bind.tries]
                  /\ UNCHANGED <<sessions, invites, p2p_addrs, dial_queue,
                                 uploads, workers, dial_senders, swarm,
                                 db_lock>>
             ELSE /\ proc' = Down("http_bind", proc.p2p_listen, bind.tries)
                  /\ MemoryLost
    /\ UNCHANGED <<stored, now, users, manifests, disk, last, accepted,
                   local_keys, config, peers, peer_addrs>>

\* The stored identity blob is damaged on disk (not a step of the program).
CorruptKey ==
    /\ "node" \in DOMAIN local_keys
    /\ local_keys["node"].key # Garbage
    /\ local_keys' = [local_keys EXCEPT !["node"] = [@ EXCEPT !.key = Garbage]]
    /\ UNCHANGED <<db_lock, stored, swarm, now, users, manifests, disk,
                   sessions, invites, p2p_addrs, dial_queue, uploads, last,
                   accepted, config, peers, peer_addrs, workers, proc,
                   dial_senders>>

\* -------------------------------------------------------------------- restart
\* The process exits and main() runs again, without --peer arguments and
\* with both binds succeeding at once, until it serves: the database and the
\* chunk files persist, AppState is rebuilt (empty session and invite maps,
\* empty listener list, new dial channel holding the recent peers) and
\* requests in flight are lost.
Restart ==
    /\ LET id == LoadIdentity(local_keys, 1, now)
       IN  /\ id.ok
           /\ local_keys' = id.tbl
           /\ config' = set_config(config, "peer_id",
                            CHOOSE pid \in {ToPeerId(k) : k \in id.key} : TRUE)
           /\ proc' = Up("serving", id.key, BindWithRetry(0, AllOk).tries,
                         BindWithRetry(HttpPort, AllOk).tries, <<>>)
    /\ sessions' = <<>>
    /\ invites' = <<>>
    /\ p2p_addrs' = <<>>
    /\ dial_queue' \in BootList(peer_addrs, now, <<>>)
    /\ uploads' = [t \in Tasks |-> Idle]
    /\ workers' = {}
    /\ dial_senders' = <<>>
    /\ swarm' = NoSwarm
    /\ db_lock' = {}
    /\ last' = [n |-> 1 - last.n, op |-> "restart", status |-> 0,
                req |-> <<>>, out |-> <<>>]
    /\ UNCHANGED <<stored, now, users, manifests, disk, accepted, peers,
                   peer_addrs>>

\* ----------------------------------------------------------------------- Next
\* The inputs the environment may submit.
AllInputs ==
    [users   |-> Usernames, logins |-> Usernames, pwds |-> Passwords,
     exps    |-> OptTimes,  salts  |-> Salts,
     sids    |-> Sids,      cookies |-> Cookies,
     invs    |-> Invites,   invexps |-> Times,    addrs |-> Addrs,
     datas   |-> Datas,     mimes  |-> OptMimes,  ids   |-> ChunkIds,
     laddrs  |-> ListenAddrs, tasks |-> Tasks,
     qmax    |-> MaxDials,
     keys    |-> Keys,      p2p_os |-> OsAnswers, http_os |-> OsAnswers,
     cli     |-> {<<>>, <<"/ip4/10.0.0.3/tcp/4001/p2p/pidX">>, <<BadAddr>>},
     pids    |-> PeerIds,   maddrs |-> PeerAddrs,
     limits  |-> 0..MaxLimit,     mins   |-> OptTimes]

NextOn(I) ==
    \/ Tick
    \/ PostSetPassword(I)
    \/ SetUserExpiry(I)
    \/ PostLogin(I)
    \/ PostLogout(I)
    \/ NewListenAddr(I)
    \/ PostP2pInvite(I)
    \/ PostP2pDial(I)
    \/ \E t \in I.tasks : UploadBegin(I, t)
    \/ \E t \in I.tasks : UploadWrite(t)
    \/ \E t \in I.tasks : UploadFinish(t)
    \/ GetChunk(I)
    \/ GetManifest(I)
    \/ DialSendResumes
    \/ EngineDial
    \/ Discovered(I)
    \/ ConnectionEstablished(I)
    \/ ConnectionError
    \/ Worker
    \/ WorkerFinish
    \/ GetP2pPeers
    \/ GetRecentPeerAddrs(I)
    \/ Exit
    \/ StartP2p(I)
    \/ BootSend
    \/ HttpBind(I)
    \/ CorruptKey
    \/ Restart

Next == NextOn(AllInputs)

Spec == Init /\ [][Next]_vars

Small == [fill |-> 1, hi |-> 0, lo |-> 1]
Large == [fill |-> 1, hi |-> 1, lo |-> 0]

\* Credentials: one account with every password and expiry, and a username
\* that never gets a row.
AuthInputs ==
    [AllInputs EXCEPT
        !.users   = {"alice"}, !.logins = {"alice", "bob"},
        !.pwds    = {"password", "hunter22"},
        !.sids    = 1..2,
        !.cookies = {NoCookie, <<SidC(1)>>, <<SidC(2)>>}]

AuthNext ==
    \/ Tick
    \/ PostSetPassword(AuthInputs)
    \/ SetUserExpiry(AuthInputs)
    \/ PostLogin(AuthInputs)
    \/ PostLogout(AuthInputs)

SpecAuth == Init /\ [][AuthNext]_vars

\* Sessions of two users over logins, logouts, password changes and
\* restarts.
SessionInputs ==
    [AllInputs EXCEPT
        !.users   = {"alice", "bob"}, !.logins = {"alice", "bob"},
        !.pwds    = {"password"}, !.exps = {{}}, !.salts = {1},
        !.cookies = {NoCookie} \cup {<<SidC(s)>> : s \in Sids}]

SessionNext ==
    \/ PostSetPassword(SessionInputs)
    \/ PostLogin(SessionInputs)
    \/ PostLogout(SessionInputs)
    \/ Restart

SpecSession == Init /\ [][SessionNext]_vars

\* The life of a session among every other operation of the node.
LifeInputs ==
    [SessionInputs EXCEPT
        !.sids   = 1..2, !.exps = {{0}},
        !.cookies = {<<SidC(1)>>, <<SidC(2)>>},
        !.invs   = {"p"}, !.invexps = {MaxTime},
        !.datas  = {Small}, !.mimes = {{}}, !.ids = {chunk_id(Small)},
        !.laddrs = {"/ip4/10.0.0.1/tcp/4001"}, !.tasks = {1},
        !.qmax   = 1]

LifeNext ==
    \/ Tick
    \/ PostSetPassword(LifeInputs)
    \/ PostLogin(LifeInputs)
    \/ PostLogout(LifeInputs)
    \/ NewListenAddr(LifeInputs)
    \/ PostP2pInvite(LifeInputs)
    \/ PostP2pDial(LifeInputs)
    \/ UploadBegin(LifeInputs, 1)
    \/ UploadWrite(1)
    \/ UploadFinish(1)
    \/ Restart

SpecLife == Init /\ [][LifeNext]_vars

\* Every endpoint with every kind of cookie, one account, one invite
\* password, one file.
GateInputs ==
    [AllInputs EXCEPT
        !.salts = {1},
        !.users  = {"alice"}, !.logins = {"alice"}, !.pwds = {"password"},
        !.exps   = {{}}, !.sids = {1},
        !.invs   = {"p"}, !.invexps = {MaxTime},
        !.datas  = {Small}, !.mimes = {{}}, !.ids = {chunk_id(Small)},
        !.laddrs = {"/ip4/10.0.0.1/tcp/4001"}, !.tasks = {1}]

GateNext ==
    \/ PostSetPassword(GateInputs)
    \/ PostLogin(GateInputs)
    \/ PostLogout(GateInputs)
    \/ NewListenAddr(GateInputs)
    \/ PostP2pInvite(GateInputs)
    \/ PostP2pDial(GateInputs)
    \/ UploadBegin(GateInputs, 1)
    \/ UploadWrite(1)
    \/ UploadFinish(1)

SpecGate == Init /\ [][GateNext]_vars

\* Invites and dial requests over time.
DialInputs ==
    [AllInputs EXCEPT
        !.salts = {1},
        !.users  = {"alice"}, !.logins = {"alice"}, !.pwds = {"password"},
        !.exps   = {{}}, !.sids = {1},
        !.cookies = {NoCookie, <<SidC(0)>>, <<SidC(1)>>},
        !.laddrs = {"/ip4/10.0.0.1/tcp/4001"}]

DialNext ==
    \/ Tick
    \/ PostSetPassword(DialInputs)
    \/ PostLogin(DialInputs)
    \/ NewListenAddr(DialInputs)
    \/ PostP2pInvite(DialInputs)
    \/ PostP2pDial(DialInputs)

SpecDial == Init /\ [][DialNext]_vars

\* The chunk store: one account, concurrent uploads of small and large files.
StoreInputs ==
    [AllInputs EXCEPT
        !.salts = {1},
        !.users   = {"alice"}, !.logins = {"alice"}, !.pwds = {"password"},
        !.exps    = {{}}, !.sids = {1},
        !.cookies = {NoCookie, <<SidC(1)>>},
        !.datas   = {EmptyData, Small, Large}, !.mimes = {{}},
        !.ids     = {chunk_id(Small), chunk_id(Large), ShortId}]

StoreNext ==
    \/ PostSetPassword(StoreInputs)
    \/ PostLogin(StoreInputs)
    \/ \E t \in Tasks : UploadBegin(StoreInputs, t)
    \/ \E t \in Tasks : UploadWrite(t)
    \/ \E t \in Tasks : UploadFinish(t)
    \/ GetChunk(StoreInputs)
    \/ Restart

SpecStore == Init /\ [][StoreNext]_vars


\* Start-up on a fresh install: identity, listener binds, bootstrap dials,
\* process exits and a damaged identity blob.
InitFresh ==
    /\ now = 0
    /\ users = <<>>
    /\ manifests = <<>>
    /\ disk = <<>>
    /\ sessions = <<>>
    /\ invites = <<>>
    /\ p2p_addrs = <<>>
    /\ dial_queue = <<>>
    /\ uploads = [t \in Tasks |-> Idle]
    /\ last = [n |-> 0, op |-> "none", status |-> 0, req |-> <<>>, out |-> <<>>]
    /\ accepted = <<>>
    /\ local_keys = <<>>
    /\ config = <<>>
    /\ peers = <<>>
    /\ peer_addrs = {}
    /\ workers = {}
    /\ proc = Down("none", <<>>, <<>>)
    /\ dial_senders = <<>>
    /\ stored = <<>>
    /\ swarm = NoSwarm
    /\ db_lock = {}

StartInputs ==
    [AllInputs EXCEPT
        !.cli = {<<>>, <<"/ip4/10.0.0.3/tcp/4001/p2p/pidX">>}]

StartNext ==
    \/ Tick
    \/ StartP2p(StartInputs)
    \/ BootSend
    \/ HttpBind(StartInputs)
    \/ Exit
    \/ CorruptKey

SpecStart == InitFresh /\ [][StartNext]_vars


\* The peer engine and its blocking workers: discovery, connections, dial
\* requests carrying /p2p/ (re-dialed after a restart) over time.
PeersInputs ==
    [AllInputs EXCEPT !.pids = {"pidX"}]

PeersNext ==
    \/ Tick
    \/ Discovered(PeersInputs)
    \/ ConnectionEstablished(PeersInputs)
    \/ EngineDial
    \/ Worker
    \/ WorkerFinish
    \/ Restart

SpecPeers == Init /\ [][PeersNext]_vars

\* The recent-peer query over every content of the peer_addrs table.
\* The tables the upserts can build: at most one row per (peer_id, addr).
PeerAddrTables ==
    {{[peer_id |-> k[1], addr |-> k[2], last_seen |-> f[k]] : k \in DOMAIN f} :
        f \in UNION {[K -> Times] : K \in SUBSET (PeerIds \X PeerAddrs)}}

\* A peers table that goes with a peer_addrs table: one row per peer, left
\* by the latest observation of that peer.
PeerTable(rows) ==
    LET pids == {r.peer_id : r \in rows}
        Latest(p) == CHOOSE r \in rows :
                        /\ r.peer_id = p
                        /\ \A q \in rows : q.peer_id = p
                                               => q.last_seen <= r.last_seen
    IN  [p \in pids |-> [last_addr |-> {Latest(p).addr},
                         last_seen |-> Latest(p).last_seen]]

InitRecent ==
    /\ now = MaxTime
    /\ users = <<>>
    /\ manifests = <<>>
    /\ disk = <<>>
    /\ sessions = <<>>
    /\ invites = <<>>
    /\ p2p_addrs = <<>>
    /\ dial_queue = <<>>
    /\ uploads = [t \in Tasks |-> Idle]
    /\ last = [n |-> 0, op |-> "none", status |-> 0, req |-> <<>>, out |-> <<>>]
    /\ accepted = <<>>
    /\ local_keys = Put(<<>>, "node", [key |-> EncodeKey(1), created_ts |-> 0])
    /\ config = Put(<<>>, "peer_id", ToPeerId(1))
    /\ peer_addrs \in PeerAddrTables
    /\ peers = PeerTable(peer_addrs)
    /\ workers = {}
    /\ proc = Up("serving", {1}, BindWithRetry(0, AllOk).tries,
                 BindWithRetry(HttpPort, AllOk).tries, <<>>)
    /\ dial_senders = <<>>
    /\ stored = <<>>
    /\ swarm = NoSwarm
    /\ db_lock = {}

RecentNext == GetRecentPeerAddrs(AllInputs)

SpecRecent == InitRecent /\ [][RecentNext]_vars

\* Discovery on a node that keeps running: the blocking pool runs every
\* closure it was handed, each closure gets the database mutex at some time
\* it is free, and a closure that holds it finishes.  What GET /p2p/peers
\* answers in a state is get_p2p_peers(peers), once the mutex is free.
PeersLiveNext ==
    \/ Tick
    \/ Discovered(PeersInputs)
    \/ Worker
    \/ WorkerFinish

\* The closures the discoveries of PeersInputs can hand to the pool.
PeersObservations ==
    {w \in AllObservations : w.peer_id \in PeersInputs.pids}

SpecPeersLive ==
    /\ Init
    /\ [][PeersLiveNext]_vars
    /\ \A w \in PeersObservations : SF_vars(WorkerRun(w))
    /\ WF_vars(WorkerFinish)

\* The dial channel at its capacity: dial requests of one logged-in user and
\* the bootstrap dials of a start with more --peer arguments than the
\* channel holds, drained by the peer engine.
QueueInputs ==
    [AllInputs EXCEPT
        !.salts = {1},
        !.users  = {"alice"}, !.logins = {"alice"}, !.pwds = {"password"},
        !.exps   = {{}}, !.sids = {1}, !.cookies = {<<SidC(1)>>},
        !.invs   = {"p"}, !.invexps = {MaxTime},
        !.laddrs = {"/ip4/10.0.0.1/tcp/4001"},
        !.keys   = {1}, !.p2p_os = {AllOk}, !.http_os = {AllOk},
        !.cli    = {[i \in 1..(DialCap + 1) |-> "/ip4/127.0.0.1/tcp/1"]},
        !.qmax   = DialCap]

QueueNext ==
    \/ PostSetPassword(QueueInputs)
    \/ PostLogin(QueueInputs)
    \/ NewListenAddr(QueueInputs)
    \/ PostP2pInvite(QueueInputs)
    \/ PostP2pDial(QueueInputs)
    \/ DialSendResumes
    \/ EngineDial
    \/ Exit
    \/ StartP2p(QueueInputs)
    \/ BootSend
    \/ HttpBind(QueueInputs)

SpecQueue == Init /\ [][QueueNext]_vars

\* set_password with acceptable and unacceptable usernames and passwords.
SetPasswordInputs ==
    [AllInputs EXCEPT
        !.users = {"alice", "", " "}, !.logins = {"alice"},
        !.pwds  = {"password", "hunter22", "1234567", "short"},
        !.sids  = {1}, !.salts = {1, 2}]

SetPasswordNext ==
    \/ Tick
    \/ PostSetPassword(SetPasswordInputs)
    \/ PostLogin(SetPasswordInputs)

SpecSetPassword == Init /\ [][SetPasswordNext]_vars

\* The manifests table: uploads of one content with and without a mime
\* field at different seconds, read back by id, across restarts.
ManifestInputs ==
    [StoreInputs EXCEPT
        !.datas = {Small}, !.mimes = OptMimes,
        !.ids   = {chunk_id(Small), chunk_id(Large)}]

ManifestNext ==
    \/ Tick
    \/ PostSetPassword(ManifestInputs)
    \/ PostLogin(ManifestInputs)
    \/ \E t \in Tasks : UploadBegin(ManifestInputs, t)
    \/ \E t \in Tasks : UploadWrite(t)
    \/ \E t \in Tasks : UploadFinish(t)
    \/ GetManifest(ManifestInputs)
    \/ Restart

SpecManifest == Init /\ [][ManifestNext]_vars

\* The dial branch of the peer engine: dial requests of one logged-in user
\* with a string that does not parse, an address without /p2p/ and one with
\* /p2p/ written with a padded port; starts with a --peer argument, kills.
EngineInputs ==
    [AllInputs EXCEPT
        !.salts = {1},
        !.users  = {"alice"}, !.logins = {"alice"}, !.pwds = {"password"},
        !.exps   = {{}}, !.sids = {1}, !.cookies = {<<SidC(1)>>},
        !.invs   = {"p"}, !.invexps = {MaxTime},
        !.addrs  = {BadAddr, "/ip4/127.0.0.1/tcp/1", PaddedAddr},
        !.laddrs = {"/ip4/10.0.0.1/tcp/4001"},
        !.keys   = {1}, !.p2p_os = {AllOk}, !.http_os = {AllOk},
        !.cli    = {<<>>, <<BadAddr>>}, !.qmax = 1]

EngineNext ==
    \/ Tick
    \/ PostSetPassword(EngineInputs)
    \/ PostLogin(EngineInputs)
    \/ NewListenAddr(EngineInputs)
    \/ PostP2pInvite(EngineInputs)
    \/ PostP2pDial(EngineInputs)
    \/ EngineDial
    \/ ConnectionError
    \/ Worker
    \/ WorkerFinish
    \/ Exit
    \/ StartP2p(EngineInputs)
    \/ BootSend
    \/ HttpBind(EngineInputs)

SpecEngine == Init /\ [][EngineNext]_vars

\* The peer engine of a node that keeps running: dial requests arrive while
\* earlier strings fail to parse, dials fail and connections fail.  The
\* engine task is scheduled and select! polls the dial branch whenever the
\* channel holds a string; the blocking pool runs every closure.
EngineLiveInputs ==
    [EngineInputs EXCEPT !.qmax = MaxDials + 1]

EngineLiveNext ==
    \/ PostSetPassword(EngineLiveInputs)
    \/ PostLogin(EngineLiveInputs)
    \/ NewListenAddr(EngineLiveInputs)
    \/ PostP2pInvite(EngineLiveInputs)
    \/ PostP2pDial(EngineLiveInputs)
    \/ EngineDial
    \/ ConnectionError
    \/ Worker
    \/ WorkerFinish

SpecEngineLive ==
    /\ Init
    /\ [][EngineLiveNext]_vars
    /\ WF_vars(EngineDial)
    /\ SF_vars(Worker)
    /\ WF_vars(WorkerFinish)

\* Starts of a node that has seen peers: two within the last 7 days, one
\* longer ago; --peer arguments; dial requests once HTTP is served.
CliAddr == "/ip4/10.0.0.9/tcp/4001"
OldAddr == "/ip4/10.0.0.4/tcp/4001"

SeenRows ==
    {[peer_id |-> "pidX", addr |-> "/ip4/10.0.0.2/tcp/4001",
      last_seen |-> Week + 1],
     [peer_id |-> "pidX", addr |-> "/ip4/10.0.0.3/tcp/4001/p2p/pidX",
      last_seen |-> Week],
     [peer_id |-> "pidY", addr |-> OldAddr, last_seen |-> 0]}

InitSeen ==
    /\ now = Week + 1
    /\ users = <<>>
    /\ manifests = <<>>
    /\ disk = <<>>
    /\ sessions = <<>>
    /\ invites = <<>>
    /\ p2p_addrs = <<>>
    /\ dial_queue = <<>>
    /\ uploads = [t \in Tasks |-> Idle]
    /\ last = [n |-> 0, op |-> "none", status |-> 0, req |-> <<>>, out |-> <<>>]
    /\ accepted = <<>>
    /\ local_keys = Put(<<>>, "node", [key |-> EncodeKey(1), created_ts |-> 0])
    /\ config = Put(<<>>, "peer_id", ToPeerId(1))
    /\ peer_addrs \in SUBSET SeenRows
    /\ peers = PeerTable(peer_addrs)
    /\ workers = {}
    /\ proc = Down("killed", BindWithRetry(0, AllOk).tries,
                   BindWithRetry(HttpPort, AllOk).tries)
    /\ dial_senders = <<>>
    /\ stored = <<>>
    /\ swarm = NoSwarm
    /\ db_lock = {}

BootInputs ==
    [EngineInputs EXCEPT
        !.invexps = {Week + 2},
        !.addrs   = {"/ip4/127.0.0.1/tcp/1"},
        !.cli     = {<<>>, <<CliAddr>>, <<CliAddr, CliAddr>>},
        !.qmax    = 3]

BootNext ==
    \/ StartP2p(BootInputs)
    \/ BootSend
    \/ EngineDial
    \/ Worker
    \/ WorkerFinish
    \/ HttpBind(BootInputs)
    \/ PostSetPassword(BootInputs)
    \/ PostLogin(BootInputs)
    \/ NewListenAddr(BootInputs)
    \/ PostP2pInvite(BootInputs)
    \/ PostP2pDial(BootInputs)
    \/ Exit

SpecBoot == InitSeen /\ [][BootNext]_vars

\* Cookie headers with several components: two sid= components in either
\* order, known and unknown, with and without another cookie in front.
MultiCookies ==
    {NoCookie, <<SidC(1)>>, <<OtherC, SidC(0)>>,
     <<SidC(0), SidC(1)>>, <<SidC(1), SidC(0)>>,
     <<SidC(1), SidC(2)>>, <<OtherC, SidC(2), SidC(1)>>}

CookieInputs ==
    [SessionInputs EXCEPT
        !.sids = 1..2, !.cookies = MultiCookies,
        !.invs = {"p"}, !.invexps = {MaxTime},
        !.laddrs = {"/ip4/10.0.0.1/tcp/4001"}]

CookieNext ==
    \/ PostSetPassword(CookieInputs)
    \/ PostLogin(CookieInputs)
    \/ PostLogout(CookieInputs)
    \/ NewListenAddr(CookieInputs)
    \/ PostP2pInvite(CookieInputs)
    \/ PostP2pDial(CookieInputs)

SpecCookie == Init /\ [][CookieNext]_vars

\* ======================================================================
\* Properties
\* ======================================================================

\* No component of the cookie carries a session id that is a key of the map:
\* no Cookie header, no sid= component, or an unknown sid.
NoValidSid(cookie, sess) ==
    \A i \in DOMAIN cookie : cookie[i].k = "sid" => cookie[i].v \notin DOMAIN sess

\* The first sid= component of the cookie is a key of the session map.
FirstSidKnown(cookie, sess) ==
    \E i \in DOMAIN cookie :
       /\ cookie[i].k = "sid" /\ cookie[i].v \in DOMAIN sess
       /\ \A j \in DOMAIN cookie : j < i => cookie[j].k # "sid"

\* This step answers a request of kind op in the step in which it arrived.
AnswersOnArrival(op) ==
    /\ Responded
    /\ last'.op = op
    /\ op = "upload" => uploads' = uploads

\* C1: on POST /auth/logout, POST /upload and POST /p2p/invite a request
\* with no Cookie header, no sid= component or an unknown sid is answered
\* 401 and leaves the session map, the invite map, the chunk store, the
\* manifest table and the dial queue unchanged; no upload starts for it.
C1_AuthGate ==
    [][ /\ \A op \in {"logout", "upload", "invite"} :
             (AnswersOnArrival(op) /\ NoValidSid(last'.req.cookie, sessions))
                => /\ last'.status = 401
                   /\ UNCHANGED <<sessions, invites, disk, manifests,
                                  dial_queue>>
        /\ \A t \in Tasks :
             (uploads[t].pc = "idle" /\ uploads'[t].pc # "idle")
                => ~NoValidSid(uploads'[t].cookie, sessions)
      ]_vars

\* C1 witness: an upload with an unknown sid was refused while sessions,
\* invites and chunk files exist.
C1_Witness ==
    /\ last.op = "upload" /\ last.status = 401
    /\ last.req.cookie = <<SidC(0)>>
    /\ sessions # <<>> /\ invites # <<>> /\ disk # <<>>

\* C2: POST /p2p/dial with a password that is not a key of the invite map,
\* or whose stored expiry is < now, is answered 401 and the dial queue is
\* unchanged.
C2_InviteGate ==
    [][ (Responded /\ last'.op = "dial" /\
         (last'.req.password \notin DOMAIN invites
            \/ invites[last'.req.password] < now))
           => (last'.status = 401 /\ UNCHANGED dial_queue)
      ]_vars

\* C2 witness: a caller with a session presented an invite password whose
\* expiry has passed and was refused.
C2_Witness ==
    /\ last.op = "dial" /\ last.status = 401
    /\ last.req.user # {}
    /\ last.req.password \in DOMAIN invites
    /\ invites[last.req.password] < now

\* C3 as stated: POST /p2p/dial needs no session; a caller with no sid
\* cookie gets 200 {status:"dialing", addr} and addr is enqueued iff the
\* password is in the invite map with now <= expires, otherwise 401.
C3_DialWithoutSession ==
    [][ (Responded /\ last'.op = "dial" /\ CookieSid(last'.req.cookie) = {})
           => IF last'.req.password \in DOMAIN invites
                 /\ now <= invites[last'.req.password]
              THEN /\ last'.status = 200
                   /\ last'.out = [status |-> "dialing", addr |-> last'.req.addr]
                   /\ dial_queue' = Append(dial_queue, last'.req.addr)
              ELSE /\ last'.status = 401
                   /\ UNCHANGED dial_queue
      ]_vars

\* C3 amended: POST /p2p/dial needs a session; a caller whose sid cookie is
\* a key of the session map gets 200 {status:"dialing", addr} and addr is
\* enqueued iff the password is in the invite map with now <= expires,
\* otherwise 401; a caller with no sid cookie or an unknown sid always gets
\* 401 and nothing is enqueued.
C3_DialNeedsSession ==
    [][ (Responded /\ last'.op = "dial")
           => IF /\ FirstSidKnown(last'.req.cookie, sessions)
                 /\ last'.req.password \in DOMAIN invites
                 /\ now <= invites[last'.req.password]
              THEN /\ last'.status = 200
                   /\ last'.out = [status |-> "dialing", addr |-> last'.req.addr]
                   /\ dial_queue' = Append(dial_queue, last'.req.addr)
              ELSE /\ last'.status = 401
                   /\ UNCHANGED dial_queue
      ]_vars

\* C3 witness: a caller with no sid cookie presented a valid invite
\* password and was refused.
C3_Witness ==
    /\ last.op = "dial" /\ last.status = 401
    /\ CookieSid(last.req.cookie) = {}
    /\ last.req.password \in DOMAIN invites
    /\ now <= invites[last.req.password]
    /\ dial_queue = <<>>


\* C4: login for u is answered 401 and leaves the session map unchanged
\* when u has no user row or when u's expires_ts is set and now > expires_ts,
\* even with the correct password; with the correct password and
\* now <= expires_ts, or expires_ts unset, it is answered 200 and adds
\* exactly one new session entry sid -> u.
C4_LoginExpiry ==
    [][ (Responded /\ last'.op = "login")
          => LET u == last'.req.username
                 p == last'.req.password
             IN  /\ (u \notin DOMAIN users
                       \/ (\E e \in users[u].expires_ts : now > e))
                       => (last'.status = 401 /\ UNCHANGED sessions)
                 /\ (/\ u \in DOMAIN users
                     /\ p = accepted[u].cur
                     /\ \A e \in users[u].expires_ts : now <= e)
                       => /\ last'.status = 200
                          /\ \E sid \in DOMAIN sessions' \ DOMAIN sessions :
                                /\ sessions' = Put(sessions, sid, u)
                                /\ last'.out = {sid}
      ]_vars

\* C4 witness: a login with the correct password was refused because the
\* expiry of the account lies in the past.
C4_Witness ==
    /\ last.op = "login" /\ last.status = 401
    /\ last.req.username \in DOMAIN users
    /\ last.req.password = accepted[last.req.username].cur
    /\ \E e \in users[last.req.username].expires_ts : now > e

\* C5: for an account without expiry, login succeeds with the password of
\* the latest set_password and fails (401) with every other password, the
\* replaced one included; the stored hash is that of the latest password
\* under the stored salt.
C5_CredentialRoundTrip ==
    [][ (Responded /\ last'.op = "login"
           /\ last'.req.username \in DOMAIN accepted
           /\ users[last'.req.username].expires_ts = {})
          => LET u == last'.req.username
                 p == last'.req.password
             IN  /\ p = accepted[u].cur => last'.status = 200
                 /\ p # accepted[u].cur => last'.status = 401
                 /\ users[u].pwd_hash
                       = Argon2(accepted[u].cur, SaltFromB64(users[u].salt))
      ]_vars

\* C5 witness: after a second set_password with another password, a login
\* with the replaced password was refused.
C5_Witness ==
    /\ last.op = "login" /\ last.status = 401
    /\ last.req.username \in DOMAIN accepted
    /\ users[last.req.username].expires_ts = {}
    /\ last.req.password \in accepted[last.req.username].prev
    /\ last.req.password # accepted[last.req.username].cur

\* C6: a logout by a caller authenticated as u leaves the session map equal
\* to the previous map without the entries whose value is u; every sid of u
\* is then rejected and every entry of every other user is unchanged.
C6_LogoutAllSessions ==
    [][ (Responded /\ last'.op = "logout" /\ last'.status = 200)
          => \E u \in last'.req.user :
               /\ \E i \in DOMAIN last'.req.cookie :
                     /\ last'.req.cookie[i].k = "sid"
                     /\ last'.req.cookie[i].v \in DOMAIN sessions
                     /\ sessions[last'.req.cookie[i].v] = u
               /\ DOMAIN sessions' = {s \in DOMAIN sessions : sessions[s] # u}
               /\ \A s \in DOMAIN sessions' : sessions'[s] = sessions[s]
               /\ \A s \in DOMAIN sessions :
                     sessions[s] = u => RequireAuth(<<SidC(s)>>, sessions') = {}
      ]_vars

\* C6 witness: a logout succeeded and the session of another user is
\* still in the map.
C6_Witness ==
    /\ last.op = "logout" /\ last.status = 200
    /\ \E s \in DOMAIN sessions : sessions[s] \notin last.req.user

\* C7: a session entry sid -> u stays in the map, and the sid is admitted by
\* the session gate, over every step that is not a successful logout
\* authenticated as u or a restart.
C7_SessionLifetime ==
    [][ /\ \A s \in DOMAIN sessions :
             \/ s \in DOMAIN sessions' /\ sessions'[s] = sessions[s]
             \/ /\ Responded /\ last'.op = "logout" /\ last'.status = 200
                /\ last'.req.user = {sessions[s]}
             \/ Responded /\ last'.op = "restart"
        /\ \A op \in {"logout", "upload", "invite"} :
             (AnswersOnArrival(op) /\ FirstSidKnown(last'.req.cookie, sessions))
                => last'.status # 401
      ]_vars

\* C7 witness: a user whose password has expired still holds a session
\* after another user has logged out.
C7_Witness ==
    /\ last.op = "logout" /\ last.status = 200
    /\ \E s \in DOMAIN sessions :
          /\ sessions[s] \notin last.req.user
          /\ \E e \in users[sessions[s]].expires_ts : now > e


\* C8: content addressing.  The manifest returned by a completed upload of
\* B has exactly one chunk, whose id is the digest of B, and every later
\* GET /chunks/<that id> is answered 200 with exactly B.
C8_ContentAddressing ==
    [][ /\ (Responded /\ last'.op = "upload" /\ last'.status = 200)
             => /\ Len(last'.out.chunks) = 1
                /\ last'.out.chunks[1].id = chunk_id(last'.req.data)
        /\ (Responded /\ last'.op = "get_chunk")
             => \A B \in Datas :
                   (chunk_id(B) = last'.req.id /\ chunk_id(B) \in DOMAIN manifests)
                      => (last'.status = 200 /\ last'.out = {B})
      ]_vars

\* C9: in every reachable state every chunk file on disk has contents whose
\* digest is its file name, and GET /chunks/<id> never returns bytes whose
\* digest differs from id.
C9_ChunkNameIsDigest ==
    /\ \A id \in DOMAIN disk : chunk_id(disk[id]) = id
    /\ (last.op = "get_chunk" /\ last.status = 200)
          => \A b \in last.out : chunk_id(b) = last.req.id

\* C10: in every manifest produced by upload the sum of chunks[i].size
\* equals total_size, for every file length, lengths >= 2^32 included.
C10_SizesSumToTotal ==
    /\ \A id \in DOMAIN manifests :
          SumSizes(FromJson(manifests[id]).chunks)
             = FromJson(manifests[id]).total_size
    /\ (last.op = "upload" /\ last.status = 200)
          => SumSizes(last.out.chunks) = last.out.total_size

\* C11: in every reachable state every manifest row references only chunk
\* ids for which a chunk file exists; a manifest row is written only by an
\* upload whose chunk has been written and flushed, and no step removes a
\* chunk file.
C11_ManifestChunksExist ==
    /\ [](\A id \in DOMAIN manifests :
             \A i \in DOMAIN FromJson(manifests[id]).chunks :
                FromJson(manifests[id]).chunks[i].id \in DOMAIN disk)
    /\ [][ /\ DOMAIN disk \subseteq DOMAIN disk'
           /\ manifests' # manifests
                => \E t \in Tasks :
                      /\ uploads[t].pc = "written"
                      /\ chunk_id(uploads[t].data) \in DOMAIN disk
                      /\ DOMAIN manifests' =
                            DOMAIN manifests \cup {chunk_id(uploads[t].data)}
                      /\ \A id \in DOMAIN manifests :
                            id # chunk_id(uploads[t].data)
                               => manifests'[id] = manifests[id]
         ]_vars

\* C11 witness: a manifest row exists whose chunk file is being rewritten
\* by a second upload of the same content.
C11_Witness ==
    \E t \in Tasks :
       /\ uploads[t].pc = "created"
       /\ chunk_id(uploads[t].data) \in DOMAIN manifests
       /\ chunk_id(uploads[t].data) \in DOMAIN disk

\* C12: GET /chunks/<id> for an id, of any length, under which no chunk is
\* stored is answered 404: never another status, never an aborted handler.
C12_UnknownChunk404 ==
    [][ (Responded /\ last'.op = "get_chunk" /\ last'.req.id \notin DOMAIN disk)
           => last'.status = 404
      ]_vars

\* C13: the node identity never rotates.  local_keys["node"] is written by
\* the program only when it is absent and is never replaced; every start
\* that succeeds reports the peer id derived from the stored key, which it
\* leaves as it found it; a start that finds a blob it cannot decode ends
\* the process without writing a key and without starting the peer engine.
C13_IdentityNeverRotates ==
    [][ /\ local_keys' # local_keys
             => \/ /\ "node" \notin DOMAIN local_keys
                   /\ proc.phase = "down"
                   /\ DOMAIN local_keys' = {"node"}
                   /\ DecodeKey(local_keys'["node"].key) # {}
                \/ /\ "node" \in DOMAIN local_keys
                   /\ local_keys' = [local_keys EXCEPT !["node"] =
                                        [@ EXCEPT !.key = Garbage]]
                   /\ UNCHANGED proc
        /\ (proc.phase = "down" /\ proc'.phase # "down")
             => /\ "node" \in DOMAIN local_keys'
                /\ proc'.peer_id # {}
                /\ proc'.peer_id =
                      {ToPeerId(k) : k \in DecodeKey(local_keys'["node"].key)}
                /\ config'["peer_id"] \in proc'.peer_id
                /\ "node" \in DOMAIN local_keys => local_keys' = local_keys
        /\ (/\ proc.phase = "down" /\ proc' # proc
            /\ "node" \in DOMAIN local_keys
            /\ DecodeKey(local_keys["node"].key) = {})
             => /\ proc'.phase = "down"
                /\ proc'.peer_id = {}
                /\ UNCHANGED <<local_keys, config, p2p_addrs, dial_queue,
                               workers, peers, peer_addrs>>
      ]_vars

\* C13 witness: a node that has served under its stored key was stopped,
\* its blob was damaged, and the next start ended at the identity load.
C13_Witness ==
    /\ proc.phase = "down" /\ proc.exit = "identity"
    /\ "node" \in DOMAIN local_keys /\ local_keys["node"].key = Garbage
    /\ "peer_id" \in DOMAIN config

\* C19: both listeners.  The first bind attempt is followed by a second
\* attempt exactly when it fails with AddrInUse, and that attempt is on
\* port 0; start-up continues exactly when the last attempt made succeeds,
\* so any other first failure, and a failed retry, end the start.
C19_BindRetriesOnce ==
    [][ /\ (proc.phase = "down" /\ proc' # proc
             /\ (proc'.phase = "boot" \/ proc'.exit = "p2p_listen"))
             => LET tries == proc'.p2p_listen
                IN  /\ Len(tries) \in {1, 2}
                    /\ tries[1].port = 0
                    /\ (Len(tries) = 2) <=> (tries[1].res = "AddrInUse")
                    /\ Len(tries) = 2 => tries[2].port = 0
                    /\ (proc'.phase = "boot") <=> (tries[Len(tries)].res = "Ok")
        /\ (proc.phase = "boot"
             /\ (proc'.phase = "serving" \/ proc'.exit = "http_bind"))
             => LET tries == proc'.http_listen
                IN  /\ Len(tries) \in {1, 2}
                    /\ tries[1].port = HttpPort
                    /\ (Len(tries) = 2) <=> (tries[1].res = "AddrInUse")
                    /\ Len(tries) = 2 => tries[2].port = 0
                    /\ (proc'.phase = "serving") <=> (tries[Len(tries)].res = "Ok")
      ]_vars

\* C19 witness: a node serves after both listeners found their address in
\* use and were bound at the second attempt.
C19_Witness ==
    /\ proc.phase = "serving"
    /\ Len(proc.p2p_listen) = 2 /\ proc.p2p_listen[1].res = "AddrInUse"
    /\ Len(proc.http_listen) = 2 /\ proc.http_listen[1].res = "AddrInUse"
    /\ proc.http_listen[2] = [port |-> 0, res |-> "Ok"]

\* C14: for every (peer_id, addr) there is at most one peer_addrs row, and
\* over every step, whatever the order in which the blocking workers run,
\* the row stays and its last_seen does not decrease.
C14_PeerAddrMonotonic ==
    /\ [](\A r1, r2 \in peer_addrs :
             (r1.peer_id = r2.peer_id /\ r1.addr = r2.addr) => r1 = r2)
    /\ [][ \A r \in peer_addrs :
              \E r2 \in peer_addrs' :
                 /\ r2.peer_id = r.peer_id /\ r2.addr = r.addr
                 /\ r2.last_seen >= r.last_seen
         ]_vars

\* C15: get_recent_peer_addrs(k, min) returns at most k pairs, each the key
\* of a different peer_addrs row with last_seen >= min (when min is given),
\* in non-increasing order of last_seen, and no qualifying row that was left
\* out has a larger last_seen than a returned one.
C15_RecentPeerQuery ==
    [][ (Responded /\ last'.op = "get_recent_peer_addrs")
          => LET out  == last'.out
                 k    == last'.req.limit
                 min  == last'.req.min_last_seen
                 RowOf(e) == {r \in peer_addrs :
                                 r.peer_id = e[1] /\ r.addr = e[2]}
                 Qual == {r \in peer_addrs : \A m \in min : r.last_seen >= m}
                 Ret  == UNION {RowOf(out[i]) : i \in DOMAIN out}
             IN  /\ DOMAIN out = 1..Cardinality(DOMAIN out)
                 /\ Cardinality(DOMAIN out) <= k
                 /\ \A i \in DOMAIN out :
                       RowOf(out[i]) # {} /\ RowOf(out[i]) \subseteq Qual
                 /\ \A i, j \in DOMAIN out : i # j => out[i] # out[j]
                 /\ \A i, j \in DOMAIN out :
                       i < j => \A ri \in RowOf(out[i]), rj \in RowOf(out[j]) :
                                   ri.last_seen >= rj.last_seen
                 /\ \A r \in Qual \ Ret :
                       \A q \in Ret : q.last_seen >= r.last_seen
      ]_vars

\* C15 witness: a query with a min that excludes a row and a limit smaller
\* than the number of qualifying rows returned exactly limit pairs.
C15_Witness ==
    /\ last.op = "get_recent_peer_addrs"
    /\ last.req.min_last_seen # {}
    /\ last.req.limit >= 2
    /\ Cardinality(DOMAIN last.out) = last.req.limit
    /\ \E r \in peer_addrs : \E m \in last.req.min_last_seen : r.last_seen < m
    /\ Cardinality({r \in peer_addrs :
                       \A m \in last.req.min_last_seen : r.last_seen >= m})
          > last.req.limit

\* C16: once the peer engine has handled a discovery event carrying
\* (pidX, addrX) at time T, a state follows in which GET /p2p/peers
\* returns pidX with last_addr = addrX and last_seen = T.
C16_DiscoveryReachesPeers ==
    \A w \in PeersObservations :
       (w \in workers)
          ~> (DbFree /\ \A out \in get_p2p_peers(peers) :
                 \E i \in DOMAIN out :
                    out[i] = [peer_id |-> w.peer_id, last_addr |-> {w.addr},
                              last_seen |-> w.ts])

\* C16 witness: every closure has run, and GET /p2p/peers answers with a
\* peer whose address and time are those of a discovery that replaced an
\* earlier observation.
C16_Witness ==
    /\ workers = {} /\ DbFree
    /\ \A out \in get_p2p_peers(peers) :
          \E i \in DOMAIN out :
             /\ out[i].last_seen = MaxTime
             /\ out[i].last_addr = {"/ip4/10.0.0.3/tcp/4001/p2p/pidX"}
    /\ \E r \in peer_addrs :
          r.last_seen < MaxTime /\ r.addr = "/ip4/10.0.0.2/tcp/4001"

\* C17 as stated: in every state of a serving node, a listener address
\* known or not, an authenticated POST /p2p/invite {password, expires}
\* stores password -> expires, replacing an earlier expiry, and returns 200
\* with the first known listener address, the password and the expiry.
C17_InviteAlwaysStored ==
    [][ (Responded /\ last'.op = "invite"
           /\ FirstSidKnown(last'.req.cookie, sessions))
          => /\ last'.status = 200
             /\ invites' = Put(invites, last'.req.password, last'.req.expires)
             /\ p2p_addrs # <<>>
             /\ last'.out = [addr |-> p2p_addrs[1],
                             password |-> last'.req.password,
                             expires |-> last'.req.expires]
      ]_vars

\* C17 amended: an authenticated POST /p2p/invite {password, expires} made
\* while at least one listener address is known stores password -> expires,
\* replacing an earlier expiry, and returns 200 with the first listener
\* address, the password and the expiry; made while no listener address is
\* known yet it returns 500 and leaves the invite map unchanged.
C17_InviteNeedsListener ==
    [][ (Responded /\ last'.op = "invite"
           /\ FirstSidKnown(last'.req.cookie, sessions))
          => IF p2p_addrs # <<>>
             THEN /\ last'.status = 200
                  /\ invites' = Put(invites, last'.req.password,
                                    last'.req.expires)
                  /\ last'.out = [addr |-> p2p_addrs[1],
                                  password |-> last'.req.password,
                                  expires |-> last'.req.expires]
             ELSE /\ last'.status = 500
                  /\ UNCHANGED invites
      ]_vars

\* C17 witness: a caller with a session asked for an invite before any
\* NewListenAddr event and got 500.
C17_Witness ==
    /\ last.op = "invite" /\ last.status = 500
    /\ last.req.user # {}
    /\ p2p_addrs = <<>>
    /\ last.req.password \notin DOMAIN invites

\* C18: the dial queue never holds more than 32 addresses.  While it is
\* full nothing is enqueued; a dial handler that passed the invite check
\* and found it full is suspended, unanswered, and leaves only by having
\* its address enqueued and answering 200; the bootstrap loop keeps its
\* next address until it is enqueued.  A dial request is never answered
\* with an error other than the 401 of the gates.
C18_DialQueueBackPressure ==
    /\ [](Len(dial_queue) <= DialCap)
    /\ [][ /\ Len(dial_queue) = DialCap
                => dial_queue' \in {dial_queue, Tail(dial_queue), <<>>}
           /\ (Responded /\ last'.op = "dial")
                => /\ last'.status \in {200, 401}
                   /\ last'.status = 200
                        => dial_queue' = Append(dial_queue, last'.req.addr)
                   /\ (/\ FirstSidKnown(last'.req.cookie, sessions)
                       /\ last'.req.password \in DOMAIN invites
                       /\ now <= invites[last'.req.password])
                        => last'.status = 200
           /\ dial_senders' # dial_senders
                => \/ /\ Len(dial_queue) = DialCap
                      /\ UNCHANGED <<dial_queue, last>>
                      /\ Len(dial_senders') = Len(dial_senders) + 1
                      /\ SubSeq(dial_senders', 1, Len(dial_senders)) = dial_senders
                   \/ /\ dial_senders # <<>>
                      /\ dial_senders' = Tail(dial_senders)
                      /\ dial_queue' = Append(dial_queue, Head(dial_senders).addr)
                      /\ Responded /\ last'.op = "dial" /\ last'.status = 200
                      /\ last'.req = Head(dial_senders)
                   \/ proc'.phase = "down"
           /\ (proc.phase = "boot" /\ proc'.boot # proc.boot)
                => \/ /\ proc'.boot = Tail(proc.boot)
                      /\ dial_queue' = Append(dial_queue, Head(proc.boot))
                   \/ proc'.phase = "down"
         ]_vars

\* C18 witness: a dial handler found the queue full and is suspended, and
\* the peer engine has since removed an item.
C18_Witness ==
    /\ dial_senders # <<>>
    /\ Len(dial_queue) = DialCap - 1
    /\ proc.phase = "serving"

\* C20: set_password with an empty username or with a password shorter than
\* 8 is answered 400 and leaves the users table unchanged: no hash, salt or
\* expiry of an existing user is replaced.
C20_SetPasswordRejects ==
    [][ (Responded /\ last'.op = "set_password"
           /\ (last'.req.username = "" \/ Len(last'.req.password) < 8))
          => /\ last'.status = 400
             /\ UNCHANGED users
      ]_vars

\* C20 witness: a password of 7 characters for an existing user was
\* refused, and the user still logs in with the old one.
C20_Witness ==
    /\ last.op = "set_password" /\ last.status = 400
    /\ last.req.username \in DOMAIN users
    /\ Len(last.req.password) = 7
    /\ users[last.req.username].expires_ts # {}
    /\ sessions # <<>>

\* C21: set_password on a username that already has a row replaces
\* pwd_hash, salt and expires_ts by those of the request (an omitted
\* expires_ts clears the stored one) and leaves created_ts at the value
\* written when the row was inserted, whatever the clock says now; the rows
\* of the other users are unchanged.
C21_SetPasswordReplaces ==
    [][ (Responded /\ last'.op = "set_password" /\ last'.status = 200
           /\ last'.req.username \in DOMAIN users)
          => LET u == last'.req.username
             IN  /\ DOMAIN users' = DOMAIN users
                 /\ \A v \in DOMAIN users : v # u => users'[v] = users[v]
                 /\ users'[u].created_ts = users[u].created_ts
                 /\ users'[u].expires_ts = last'.req.expires_ts
                 /\ \E s \in Salts :
                       /\ users'[u].salt = SaltBytes(s)
                       /\ users'[u].pwd_hash = Argon2(last'.req.password, s)
      ]_vars

\* C21 witness: a row inserted at an earlier second with an expiry was
\* given another password, without expires_ts, and kept its created_ts.
C21_Witness ==
    /\ last.op = "set_password" /\ last.status = 200
    /\ last.req.expires_ts = {}
    /\ last.req.username \in DOMAIN users
    /\ users[last.req.username].created_ts < now
    /\ users[last.req.username].expires_ts = {}
    /\ accepted[last.req.username].prev # {}
    /\ accepted[last.req.username].cur \notin accepted[last.req.username].prev

EngineTakes ==
    /\ dial_queue # <<>>
    /\ dial_queue' = Tail(dial_queue)
    /\ proc' = proc

\* C23: for each string the peer engine takes from the dial queue, a dial
\* is initiated iff the string parses as a multiaddress, and an observation
\* (peer id, address, current time) is handed to the database iff it parses
\* and has a /p2p/<id> component; the peers and peer_addrs tables change
\* only by such an observation being written; a string that does not parse
\* changes no table and starts no dial; whatever the dial returns, no
\* response is produced and the request was answered 200 when it was queued.
C23_EngineDialBranch ==
    [][ /\ EngineTakes
             => LET str    == Head(dial_queue)
                    parses == str # BadAddr
                    text   == IF str = PaddedAddr
                              THEN "/ip4/10.0.0.3/tcp/4001/p2p/pidX" ELSE str
                    has_id == parses /\ text = "/ip4/10.0.0.3/tcp/4001/p2p/pidX"
                IN  /\ (swarm'.n # swarm.n) <=> parses
                    /\ parses => swarm'.addr = text
                    /\ ~parses => /\ swarm'.addr = swarm.addr
                                  /\ swarm'.res = swarm.res
                    /\ workers' = IF has_id
                                  THEN workers \cup {[peer_id |-> "pidX",
                                                      addr |-> text, ts |-> now]}
                                  ELSE workers
                    /\ UNCHANGED <<peers, peer_addrs, last, dial_senders>>
        /\ peers' # peers
             => \E w \in workers :
                   /\ w.peer_id \in DOMAIN peers'
                   /\ peers'[w.peer_id] = [last_addr |-> {w.addr},
                                           last_seen |-> w.ts]
                   /\ UNCHANGED <<dial_queue, swarm, last>>
        /\ peer_addrs' # peer_addrs
             => \E w \in db_lock :
                   /\ peers[w.peer_id] = [last_addr |-> {w.addr},
                                          last_seen |-> w.ts]
                   /\ [peer_id |-> w.peer_id, addr |-> w.addr,
                       last_seen |-> w.ts] \in peer_addrs'
                   /\ UNCHANGED <<dial_queue, swarm, last>>
        /\ (Responded /\ last'.op = "dial" /\ last'.status = 200)
             => /\ dial_queue' = Append(dial_queue, last'.req.addr)
                /\ UNCHANGED swarm
      ]_vars

\* C23 witness: a dial request for a string that does not parse was
\* answered 200 and the engine has dropped the string; before that the
\* engine dialed an address with /p2p/pidX, the dial failed, and the peer
\* is in both tables.
C23_Witness ==
    /\ last.op = "dial" /\ last.status = 200 /\ last.req.addr = BadAddr
    /\ dial_queue = <<>>
    /\ swarm.warn = "invalid multiaddr"
    /\ swarm.res = "Err"
    /\ swarm.addr = "/ip4/10.0.0.3/tcp/4001/p2p/pidX"
    /\ "pidX" \in DOMAIN peers
    /\ peers["pidX"].last_addr = {"/ip4/10.0.0.3/tcp/4001/p2p/pidX"}
    /\ \E r \in peer_addrs : r.addr = "/ip4/10.0.0.3/tcp/4001/p2p/pidX"

\* C24: the peer engine never stops on a per-event error.  The dial queue
\* is first-in first-out (it changes only by a string appended at its end
\* or by its head being taken), and the engine takes the head again and
\* again unless the queue is empty again and again: so every string placed
\* on the queue is taken off, whatever parse failures, dial errors or
\* connection errors were logged before.
C24_EngineNeverStops ==
    /\ [][ dial_queue' # dial_queue
             => \/ dial_queue # <<>> /\ dial_queue' = Tail(dial_queue)
                \/ \E a \in EngineLiveInputs.addrs :
                      dial_queue' = Append(dial_queue, a)
         ]_vars
    /\ \/ []<>(dial_queue = <<>>)
       \/ []<><<EngineTakes>>_vars

\* C24 witness: two strings wait on the queue after a dial has failed and
\* a connection error has been logged; the second one does not parse.
C24_Witness ==
    /\ Len(dial_queue) = 2
    /\ dial_queue[1] = BadAddr
    /\ dial_queue[2] = PaddedAddr
    /\ swarm.res = "Err"
    /\ swarm.warn = "p2p outgoing conn error"

\* The kind of a queued address: 0 an address of a stored peer, 1 a --peer
\* argument, 2 the address of a dial request.
BootRank(a) ==
    IF a = CliAddr THEN 1 ELSE IF a = "/ip4/127.0.0.1/tcp/1" THEN 2 ELSE 0

\* C25: bootstrap ordering.  A start leaves the peer engine running and
\* main() with the list to send: the addresses of the peer_addrs rows seen
\* within the last 7 days, newest first, at most 32, followed by the --peer
\* arguments.  Until the list is sent the queue changes only by main()
\* appending the next address of the list or by the engine taking the head,
\* no request is answered and HTTP is not bound.  So, in the queue followed
\* by what is still to send, stored-peer addresses come before --peer
\* addresses, and both before the addresses of dial requests.
C25_BootstrapOrdering ==
    /\ [](LET q == dial_queue \o proc.boot
          IN  \A i, j \in DOMAIN q : i < j => BootRank(q[i]) <= BootRank(q[j]))
    /\ [][ /\ (proc.phase = "down" /\ proc'.phase # "down")
               => LET Qual == {r \in peer_addrs : r.last_seen >= now - 604800}
                      k    == IF Cardinality(Qual) < 32
                              THEN Cardinality(Qual) ELSE 32
                      boot == proc'.boot
                  IN  /\ proc'.phase = "boot"
                      /\ dial_queue' = <<>>
                      /\ Len(boot) >= k
                      /\ \A i \in 1..k :
                            \E r \in Qual :
                               /\ boot[i] = r.addr
                               /\ Cardinality({x \in Qual :
                                      x.last_seen > r.last_seen}) < i
                      /\ \A i, j \in 1..k : i # j => boot[i] # boot[j]
                      /\ \A i \in (k + 1)..Len(boot) : boot[i] = CliAddr
           /\ proc.phase = "boot"
               => /\ UNCHANGED last
                  /\ dial_queue' # dial_queue
                       => \/ /\ proc.boot # <<>>
                             /\ dial_queue' = Append(dial_queue, Head(proc.boot))
                             /\ proc'.boot = Tail(proc.boot)
                          \/ EngineTakes
                          \/ proc'.phase = "down"
                  /\ proc'.boot # proc.boot
                       => \/ /\ proc'.boot = Tail(proc.boot)
                             /\ dial_queue' = Append(dial_queue, Head(proc.boot))
                          \/ proc'.phase = "down"
                  /\ proc'.phase = "serving" => proc.boot = <<>>
           /\ Responded => (proc.phase = "serving" /\ proc.boot = <<>>)
         ]_vars

\* C25 witness: the node serves; the engine has taken both stored-peer
\* addresses, the older one last, and the queue holds the --peer address
\* followed by the address of a dial request.
C25_Witness ==
    /\ proc.phase = "serving"
    /\ dial_queue = <<CliAddr, "/ip4/127.0.0.1/tcp/1">>
    /\ swarm.addr = "/ip4/10.0.0.3/tcp/4001/p2p/pidX"
    /\ last.op = "dial" /\ last.status = 200
    /\ \E r \in peer_addrs : r.addr = OldAddr

\* C26: session extraction uses only the first sid= component of the
\* Cookie header.  A request to a gated endpoint is admitted iff that
\* component's value is a key of the session map, and it is admitted as
\* the user of that entry; a request whose first sid is unknown gets 401
\* even when a later sid= component is valid.
C26_FirstSidOnly ==
    [][ \A op \in {"logout", "invite", "dial"} :
          (Responded /\ last'.op = op)
             => LET c   == last'.req.cookie
                    idx == {i \in DOMAIN c : c[i].k = "sid"}
                    fst == {i \in idx : \A j \in idx : i <= j}
                IN  /\ (\E i \in fst : c[i].v \in DOMAIN sessions)
                         <=> last'.req.user # {}
                    /\ last'.req.user = {} => last'.status = 401
                    /\ \A i \in fst :
                          c[i].v \in DOMAIN sessions
                             => last'.req.user = {sessions[c[i].v]}
                    /\ (op # "dial" /\ last'.req.user # {})
                          => last'.status # 401
      ]_vars

\* C26 witness: a request whose cookie carries an unknown sid followed by
\* the sid of a live session was refused.
C26_Witness ==
    /\ last.op = "invite" /\ last.status = 401
    /\ last.req.cookie = <<SidC(0), SidC(1)>>
    /\ 1 \in DOMAIN sessions
    /\ p2p_addrs # <<>>

\* ---------------------------------------------------------------------------
\* C27: whenever no observation write is in progress, every peers row
\* (pid, last_addr = A, last_seen = t) with A non-null has a peer_addrs row
\* (pid, A) with the same last_seen t.
\* ---------------------------------------------------------------------------
PeerTablesAgree ==
    \A pid \in DOMAIN peers :
       \A A \in peers[pid].last_addr :
          [peer_id |-> pid, addr |-> A, last_seen |-> peers[pid].last_seen]
             \in peer_addrs

C27_PeerTablesAgree == DbFree => PeerTablesAgree

\* ---------------------------------------------------------------------------
\* C28: an invite is not consumed by use and is never removed.
\* ---------------------------------------------------------------------------
\* Invites of two passwords with an expiry of 0 or 1, dials of two addresses
\* with and without a session, the clock, the engine draining the channel,
\* and restarts of the node.
InviteInputs ==
    [EngineInputs EXCEPT
        !.cookies = {NoCookie, <<SidC(1)>>},
        !.invs    = {"p", "q"}, !.invexps = {0, 1},
        !.addrs   = {"/ip4/127.0.0.1/tcp/1", "/ip4/127.0.0.1/tcp/2"},
        !.qmax    = 2]

InviteNext ==
    \/ Tick
    \/ PostSetPassword(InviteInputs)
    \/ PostLogin(InviteInputs)
    \/ NewListenAddr(InviteInputs)
    \/ PostP2pInvite(InviteInputs)
    \/ PostP2pDial(InviteInputs)
    \/ EngineDial
    \/ Restart

SpecInvite == Init /\ [][InviteNext]_vars

\* C28: an authenticated dial that submits a password p of the invite map
\* at a time now <= invites[p] is accepted (200, its address queued), for
\* any address and however many dials used p before, and no dial changes
\* the map; an entry of the map stays as it is, also after its expiry has
\* passed, until an invite for the same password overwrites it or the
\* process restarts.
C28_InviteNotConsumed ==
    [][ /\ (Responded /\ last'.op = "dial")
           => /\ invites' = invites
              /\ (/\ last'.req.user # {}
                  /\ last'.req.password \in DOMAIN invites
                  /\ now <= invites[last'.req.password])
                 => /\ last'.status = 200
                    /\ dial_queue' = Append(dial_queue, last'.req.addr)
        /\ \A p \in DOMAIN invites :
              \/ p \in DOMAIN invites' /\ invites'[p] = invites[p]
              \/ /\ Responded /\ last'.op = "invite" /\ last'.status = 200
                 /\ last'.req.password = p
                 /\ invites' = Put(invites, p, last'.req.expires)
              \/ Responded /\ last'.op = "restart" /\ invites' = <<>>
      ]_vars

\* The invite p was used for two dials of different addresses, both still
\* in the channel, and a third dial with p made after the expiry was
\* rejected while the entry is still in the map.
C28_Witness ==
    /\ "p" \in DOMAIN invites
    /\ now > invites["p"]
    /\ Len(dial_queue) = 2
    /\ dial_queue[1] # dial_queue[2]
    /\ last.op = "dial" /\ last.status = 401
    /\ last.req.user # {} /\ last.req.password = "p"

\* ---------------------------------------------------------------------------
\* C29: bootstrap cannot deadlock on the bounded dial queue.
\* ---------------------------------------------------------------------------
\* Starts with no --peer argument or with one more than the channel holds,
\* after any of the recent-peer tables of SeenRows.
BootLiveInputs ==
    [EngineInputs EXCEPT
        !.cli = {<<>>, [i \in 1..(DialCap + 1) |-> CliAddr]}]

BootLiveNext ==
    \/ StartP2p(BootLiveInputs)
    \/ BootSend
    \/ EngineDial
    \/ Worker
    \/ WorkerFinish
    \/ HttpBind(BootLiveInputs)

\* The engine task spawned by spawn_p2p is scheduled and polls the dial
\* branch whenever the channel holds a string; main() is scheduled: a send
\* that has room completes and the bind that follows the loops is made.
SpecBootLive ==
    /\ InitSeen
    /\ [][BootLiveNext]_vars
    /\ WF_vars(EngineDial)
    /\ WF_vars(BootSend)
    /\ WF_vars(HttpBind(BootLiveInputs))

\* C29: whatever the number of bootstrap addresses, every bootstrap send
\* that is still to be made is made, and a node that has started its peer
\* engine reaches the HTTP bind and serves.
C29_BootstrapCompletes ==
    (proc.phase = "boot") ~> (Serving /\ proc.boot = <<>>)

\* The channel is full and a bootstrap send waits for room.
C29_Witness ==
    /\ proc.phase = "boot"
    /\ Len(dial_queue) = DialCap
    /\ Len(proc.boot) >= 1

====
